---- MODULE Spec2Model ----
(***************************************************************************)
(* A model of the Cognitor CMS front-end: the API client (client.ts), the  *)
(* search and pages services (search.ts, pages.ts), the two proxy routes   *)
(* (app/api/search) and the recent-searches store.                         *)
(*                                                                         *)
(* Texts are sequences of one-character strings.  JSON values are records  *)
(* tagged by t.  A URL is the base URL, the list of its path segments and  *)
(* its query parameters.                                                   *)
(***************************************************************************)
EXTENDS Integers, Sequences, FiniteSets, TLC

VARIABLES
  now,               \* Date.now()
  rateLimitTracker,  \* CognitorApiClient.rateLimitTracker: endpoint -> time, over the keys of the Map
  tasks,             \* the asynchronous calls in progress, one record per slot
  storage,           \* window.localStorage: key -> JNull (no item) or the JSON array stored
  saveLog            \* history: the saves made since storage was last empty

vars == <<now, rateLimitTracker, tasks, storage, saveLog>>

----------------------------------------------------------------------------
(* Bounds of the model *)

TaskIds == {1, 2}
Epoch == 5000
MaxNow == 6000
MaxFetches == 3
NTerms == 11
MaxSaves == 12
MaxResaves == 2

----------------------------------------------------------------------------
(* JavaScript values.  JStr holds a fixed string of the program, JText a    *)
(* text as a sequence of characters, JNum an integer, JNaN the number NaN. *)

Undefined == [t |-> "undefined"]
JNull == [t |-> "null"]
NotJson == [t |-> "notjson"]
JBool(b) == [t |-> "bool", b |-> b]
JNum(n) == [t |-> "num", n |-> n]
JStr(s) == [t |-> "str", s |-> s]
JNaN == [t |-> "nan"]
JText(chars) == [t |-> "text", s |-> chars]
JArr(items) == [t |-> "array", items |-> items]
JObj(f) == [t |-> "object", f |-> f]

\* ToBoolean
Truthy(v) ==
  CASE v.t = "undefined" -> FALSE
    [] v.t = "null" -> FALSE
    [] v.t = "bool" -> v.b
    [] v.t = "num" -> v.n # 0
    [] v.t = "nan" -> FALSE
    [] v.t = "str" -> v.s # ""
    [] v.t = "text" -> Len(v.s) > 0
    [] OTHER -> TRUE

\* v.k throws a TypeError exactly when v is null or undefined
CanRead(v) == v.t \notin {"null", "undefined"}

\* v.k for a v that can be read
Prop(v, k) == IF v.t = "object" /\ k \in DOMAIN v.f THEN v.f[k] ELSE Undefined

\* 'k' in v, for an object v
HasKey(v, k) == v.t = "object" /\ k \in DOMAIN v.f

----------------------------------------------------------------------------
(* config (lib/config.ts) *)

apiBaseUrl == "https://backend.cognitor.dev"
siteId == "default"

RateLimitWindow == 1000

----------------------------------------------------------------------------
(* CognitorApiClient *)

\* An endpoint is [path |-> endpoint.split('/') without its query, params |-> the
\* entries of its query].  The Map is keyed by the endpoint, query included.
TrackerGet(tracker, endpoint) ==
  IF endpoint \in DOMAIN tracker THEN tracker[endpoint] ELSE 0

TrackerSet(tracker, endpoint, time) ==
  [e \in DOMAIN tracker \cup {endpoint} |-> IF e = endpoint THEN time ELSE tracker[e]]

\* A rate limiter that rejects the call inside the window
checkRateLimitRejecting(tracker, endpoint, time) ==
  LET lastRequest == TrackerGet(tracker, endpoint)
      timeDiff == time - lastRequest
  IN IF timeDiff < RateLimitWindow
       THEN [tracker |-> tracker, warned |-> TRUE, threw |-> TRUE]
       ELSE [tracker |-> TrackerSet(tracker, endpoint, time), warned |-> FALSE, threw |-> FALSE]

\* A rate limiter that records the time of every request
checkRateLimitRecordingAll(tracker, endpoint, time) ==
  LET lastRequest == TrackerGet(tracker, endpoint)
      timeDiff == time - lastRequest
  IN [tracker |-> TrackerSet(tracker, endpoint, time), warned |-> timeDiff < RateLimitWindow,
      threw |-> FALSE]

\* checkRateLimit: warns and returns inside the window, records the time otherwise
checkRateLimit(tracker, endpoint, time) ==
  LET lastRequest == TrackerGet(tracker, endpoint)
      timeDiff == time - lastRequest
  IN IF timeDiff < RateLimitWindow
       THEN [tracker |-> tracker, warned |-> TRUE, threw |-> FALSE]
       ELSE [tracker |-> TrackerSet(tracker, endpoint, time), warned |-> FALSE, threw |-> FALSE]

StartsWith(path, prefix) ==
  /\ Len(path) > Len(prefix)
  /\ \A i \in 1..Len(prefix) : path[i] = prefix[i]

\* A buildUrl that keeps the leading slash of the endpoint
buildUrlKeepingSlash(endpoint) ==
  LET cleanEndpoint == endpoint.path
      path == IF StartsWith(cleanEndpoint, <<"search", "sites">>)
                THEN cleanEndpoint
              ELSE IF StartsWith(cleanEndpoint, <<"search">>)
                THEN <<"search", "sites", siteId>> \o Tail(cleanEndpoint)
              ELSE IF StartsWith(cleanEndpoint, <<"public">>)
                THEN cleanEndpoint
              ELSE <<"public", siteId>> \o cleanEndpoint
  IN [base |-> apiBaseUrl, path |-> path, params |-> endpoint.params]

\* buildUrl: the full URL of an endpoint
buildUrl(endpoint) ==
  LET cleanEndpoint == IF Len(endpoint.path) >= 2 /\ endpoint.path[1] = ""
                         THEN Tail(endpoint.path) ELSE endpoint.path
      path == IF StartsWith(cleanEndpoint, <<"search", "sites">>)
                THEN cleanEndpoint
              ELSE IF StartsWith(cleanEndpoint, <<"search">>)
                THEN <<"search", "sites", siteId>> \o Tail(cleanEndpoint)
              ELSE IF StartsWith(cleanEndpoint, <<"public">>)
                THEN cleanEndpoint
              ELSE <<"public", siteId>> \o cleanEndpoint
  IN [base |-> apiBaseUrl, path |-> path, params |-> endpoint.params]

CognitorApiError(statusCode, code) ==
  [name |-> "CognitorApiError", statusCode |-> statusCode, code |-> code]

Returned(value) == [kind |-> "returned", value |-> value]
Threw(error) == [kind |-> "threw", error |-> error]

\* The catch block of request: a CognitorApiError is rethrown, anything else is wrapped
requestCatch(error) ==
  IF error.name = "CognitorApiError" THEN Threw(error)
  ELSE Threw(CognitorApiError(0, JStr("NETWORK_ERROR")))

\* A transformation that wraps every payload as the data of a response
requestTransformWrapping(rawData) ==
  JObj([k \in {"success", "data", "message"} |->
    CASE k = "success" -> JBool(TRUE)
      [] k = "message" -> JStr("Success")
      [] OTHER -> rawData])

\* The transformation of an OK payload
requestTransform(rawData) ==
  IF rawData.t = "array"
    THEN JObj([k \in {"success", "data", "message"} |->
           CASE k = "success" -> JBool(TRUE)
             [] k = "message" -> JStr("Success")
             [] OTHER -> JObj([d \in {"items", "total", "page", "limit", "pagination"} |->
                  CASE d = "items" -> rawData
                    [] d = "total" -> JNum(Len(rawData.items))
                    [] d = "page" -> JNum(1)
                    [] d = "limit" -> JNum(Len(rawData.items))
                    [] OTHER -> JObj([p \in {"page", "limit", "total", "totalPages", "hasNext", "hasPrev"} |->
                         CASE p = "page" -> JNum(1)
                           [] p = "limit" -> JNum(Len(rawData.items))
                           [] p = "total" -> JNum(Len(rawData.items))
                           [] p = "totalPages" -> JNum(1)
                           [] OTHER -> JBool(FALSE)])])])
  ELSE IF Truthy(rawData) /\ HasKey(rawData, "data")
    THEN rawData
  ELSE JObj([k \in {"success", "data", "message"} |->
         CASE k = "success" -> JBool(TRUE)
           [] k = "message" -> JStr("Success")
           [] OTHER -> rawData])

Raised(error) == [kind |-> "raised", error |-> error]

\* The try block of request after the fetch has settled.  outcome is Fails when
\* fetch rejects and Http(status, body) otherwise, body NotJson when json() rejects.
requestTry(outcome) ==
  IF outcome.net = "fail" THEN Raised([name |-> "TypeError"])
  ELSE IF ~(outcome.status \in 200..299)
    THEN LET errorData == IF outcome.body.t = "notjson"
                            THEN JObj([k \in {"code", "statusCode"} |->
                                   IF k = "code" THEN JStr("UNKNOWN_ERROR") ELSE JNum(outcome.status)])
                            ELSE outcome.body
         IN IF CanRead(errorData)
              THEN Raised(CognitorApiError(outcome.status, Prop(errorData, "code")))
              ELSE Raised([name |-> "TypeError"])
  ELSE IF outcome.body.t = "notjson" THEN Raised([name |-> "SyntaxError"])
  ELSE Returned(requestTransform(outcome.body))

\* A request that fetches again after a network failure
requestSettleRetrying(outcome) ==
  LET r == requestTry(outcome)
  IN IF r.kind = "raised"
       THEN IF r.error.name = "CognitorApiError" THEN Threw(r.error) ELSE [kind |-> "refetch"]
       ELSE r

\* request after the fetch has settled: the try block, then the catch block
requestSettle(outcome) ==
  LET r == requestTry(outcome)
  IN IF r.kind = "raised" THEN requestCatch(r.error) ELSE r

----------------------------------------------------------------------------
(* Texts and numbers *)

IsSpace(c) == c \in {" ", "\t"}

\* String.prototype.trim
RECURSIVE TrimStart(_)
TrimStart(s) == IF Len(s) > 0 /\ IsSpace(s[1]) THEN TrimStart(Tail(s)) ELSE s

RECURSIVE TrimEnd(_)
TrimEnd(s) == IF Len(s) > 0 /\ IsSpace(s[Len(s)]) THEN TrimEnd(SubSeq(s, 1, Len(s) - 1)) ELSE s

Trim(s) == TrimEnd(TrimStart(s))

\* String.prototype.toLowerCase, on the characters of the model
LowerChar(c) ==
  CASE c = "E" -> "e"
    [] c = "R" -> "r"
    [] c = "S" -> "s"
    [] OTHER -> c

ToLowerCase(s) == [i \in 1..Len(s) |-> LowerChar(s[i])]

\* String.prototype.includes
Includes(hay, needle) ==
  \E i \in 0..(Len(hay) - Len(needle)) :
    \A j \in 1..Len(needle) : hay[i + j] = needle[j]

\* Array.prototype.slice(0, end) for a number end
SliceTo(s, end) ==
  LET e == IF end.t = "nan" THEN 0
           ELSE IF end.n < 0 THEN (IF Len(s) + end.n < 0 THEN 0 ELSE Len(s) + end.n)
           ELSE IF end.n > Len(s) THEN Len(s) ELSE end.n
  IN SubSeq(s, 1, e)

\* String.prototype.split(',')
RECURSIVE Split(_)
Split(s) ==
  LET commas == {i \in 1..Len(s) : s[i] = ","}
  IN IF commas = {} THEN <<s>>
     ELSE LET i == CHOOSE k \in commas : \A m \in commas : k <= m
          IN <<SubSeq(s, 1, i - 1)>> \o Split(SubSeq(s, i + 1, Len(s)))

\* Array.prototype.join(',')
RECURSIVE Join(_)
Join(parts) ==
  IF Len(parts) = 0 THEN <<>>
  ELSE IF Len(parts) = 1 THEN parts[1]
  ELSE parts[1] \o <<",">> \o Join(Tail(parts))

IsDigit(c) == c \in {"0", "1", "2", "3", "4", "5", "6", "7", "8", "9"}

DigitValue(c) ==
  CASE c = "0" -> 0 [] c = "1" -> 1 [] c = "2" -> 2 [] c = "3" -> 3 [] c = "4" -> 4
    [] c = "5" -> 5 [] c = "6" -> 6 [] c = "7" -> 7 [] c = "8" -> 8 [] OTHER -> 9

\* The value of the longest prefix of digits of s, acc the value read so far
RECURSIVE Digits(_, _)
Digits(s, acc) ==
  IF Len(s) > 0 /\ IsDigit(s[1]) THEN Digits(Tail(s), 10 * acc + DigitValue(s[1])) ELSE acc

\* parseInt(s): leading whitespace, an optional sign, then digits; NaN without a digit
parseInt(s) ==
  LET t == TrimStart(s)
      neg == Len(t) > 0 /\ t[1] = "-"
      body == IF Len(t) > 0 /\ t[1] \in {"-", "+"} THEN Tail(t) ELSE t
  IN IF Len(body) > 0 /\ IsDigit(body[1])
       THEN JNum(IF neg THEN 0 - Digits(body, 0) ELSE Digits(body, 0))
       ELSE JNaN

\* a * b and a - b on numbers
JMul(a, b) == IF a.t = "nan" \/ b.t = "nan" THEN JNaN ELSE JNum(a.n * b.n)
JSub(a, b) == IF a.t = "nan" \/ b.t = "nan" THEN JNaN ELSE JNum(a.n - b.n)

\* Math.floor(a / b) for integers a and b # 0
FloorDiv(a, b) == IF b > 0 THEN a \div b ELSE (0 - a) \div (0 - b)

----------------------------------------------------------------------------
(* CognitorApiClient.get and the steps of an asynchronous operation *)

\* An operation either awaits a request of the client or is finished.
CallStep(stage, method, endpoint, cache) ==
  [kind |-> "call", stage |-> stage, method |-> method, endpoint |-> endpoint, cache |-> cache]
DoneStep(result) == [kind |-> "done", result |-> result]

\* The entries of params that get appends to the URL
RECURSIVE AppendParams(_)
AppendParams(params) ==
  IF Len(params) = 0 THEN <<>>
  ELSE IF params[1][2].t \in {"undefined", "null"} THEN AppendParams(Tail(params))
  ELSE <<params[1]>> \o AppendParams(Tail(params))

\* get(endpoint, params, options): the endpoint handed to request
get(path, params) == [path |-> path, params |-> AppendParams(params)]

Obj2(k1, v1, k2, v2) == JObj([k \in {k1, k2} |-> IF k = k1 THEN v1 ELSE v2])
Obj3(k1, v1, k2, v2, k3, v3) ==
  JObj([k \in {k1, k2, k3} |-> IF k = k1 THEN v1 ELSE IF k = k2 THEN v2 ELSE v3])

TypeError == [name |-> "TypeError"]

----------------------------------------------------------------------------
(* PagesService *)

\* The path segment a page id is rendered as
IdSegment(id) ==
  CASE id.t = "num" -> ToString(id.n)
    [] id.t = "str" -> id.s
    [] OTHER -> id.t

\* getPages(params)
getPagesStart(params) ==
  CallStep(1, "GET",
           get(<<"pages">>,
               << <<"limit", IF Truthy(params.limit) THEN params.limit ELSE Undefined>>,
                  <<"offset", IF Truthy(params.offset) THEN params.offset ELSE Undefined>>,
                  <<"status", IF Truthy(params.status) THEN params.status ELSE Undefined>>,
                  <<"search", IF Truthy(params.search) THEN params.search ELSE Undefined>> >>),
           "force-cache")

getPagesResume(rr) == DoneStep(rr)

cacheOptions(params) == IF params.preview THEN "no-store" ELSE "force-cache"

\* getPageBySlug(params): step 1, the page list filtered by the slug
getPageBySlugStart(params) ==
  CallStep(1, "GET",
           get(<<"pages">>,
               << <<"slug", JStr(params.slug)>>,
                  <<"preview", IF params.preview THEN JBool(TRUE) ELSE Undefined>> >>),
           cacheOptions(params))

PageNotFound == Obj3("success", JBool(FALSE), "data", JNull, "message", JStr("Page not found"))

\* getPageBySlug(params): what follows the answer to step `stage`
getPageBySlugResume(params, stage, rr) ==
  IF rr.kind = "threw" THEN DoneStep(rr)
  ELSE LET response == rr.value
           data == Prop(response, "data")
           items == Prop(data, "items")
       IN IF stage = 1
            THEN IF ~Truthy(Prop(response, "success")) THEN DoneStep(Returned(PageNotFound))
                 ELSE IF ~CanRead(data) THEN DoneStep(Threw(TypeError))
                 ELSE IF ~Truthy(items) THEN DoneStep(Returned(PageNotFound))
                 ELSE IF items.t = "array" /\ Len(items.items) = 0 THEN DoneStep(Returned(PageNotFound))
                 ELSE IF items.t \in {"str", "text"}
                   THEN CallStep(2, "GET", get(<<"pages", "undefined">>, <<>>), cacheOptions(params))
                 ELSE IF items.t # "array" THEN DoneStep(Threw(TypeError))
                 ELSE IF ~CanRead(items.items[1]) THEN DoneStep(Threw(TypeError))
                 ELSE CallStep(2, "GET",
                               get(<<"pages", IdSegment(Prop(items.items[1], "id"))>>, <<>>),
                               cacheOptions(params))
          ELSE IF ~Truthy(Prop(response, "success"))
            THEN DoneStep(Returned(Obj3("success", JBool(FALSE), "data", JNull,
                                        "message", IF Truthy(Prop(response, "message"))
                                                     THEN Prop(response, "message")
                                                     ELSE JStr("Failed to load page content"))))
          ELSE DoneStep(Returned(Obj3("success", JBool(TRUE), "data", data,
                                      "message", Prop(response, "message"))))

----------------------------------------------------------------------------
(* SearchService.search, in its two versions: impl "search.ts" is           *)
(* src/lib/api/search.ts, impl "part_001" is the version with the fallback *)
(* search over the pages API.                                              *)

\* a < b on numbers; false when either is not a number
JLess(a, b) == a.t = "num" /\ b.t = "num" /\ a.n < b.n

OrTen(limit) == IF Truthy(limit) THEN limit ELSE JNum(10)

\* The queryParams of search
searchQueryParams(query) ==
  << <<"q", JText(query.query)>>,
     <<"size", IF Truthy(query.limit) THEN query.limit ELSE Undefined>>,
     <<"page", IF Truthy(query.offset)
                 THEN JNum(FloorDiv(query.offset.n, OrTen(query.limit).n) + 1)
                 ELSE Undefined>>,
     <<"category", IF Truthy(query.filters) /\ Truthy(Prop(query.filters, "category"))
                     THEN Prop(query.filters, "category") ELSE Undefined>>,
     <<"tags", IF /\ Truthy(query.filters)
                  /\ Truthy(Prop(query.filters, "tags"))
                  /\ Len(Prop(query.filters, "tags").items) > 0
                 THEN JText(Join(Prop(query.filters, "tags").items)) ELSE Undefined>> >>

searchStart(query) ==
  CallStep(1, "GET", get(<<"search", "sites", siteId>>, searchQueryParams(query)),
           IF query.impl = "part_001" /\ query.env = "development" THEN "no-store" ELSE "default")

EmptyPagination ==
  JObj([p \in {"page", "limit", "total", "totalPages", "hasNext", "hasPrevious"} |->
    CASE p = "page" -> JNum(1)
      [] p = "limit" -> JNum(10)
      [] p = "total" -> JNum(0)
      [] p = "totalPages" -> JNum(0)
      [] OTHER -> JBool(FALSE)])

\* A catch block that answers with the rows it had at hand
searchFailureKeepingItems(query, message) ==
  Obj3("success", JBool(FALSE), "message", JStr(message), "data",
       Obj2("items", JArr(<<JNull>>), "total", JNum(1)))

\* The response of a search that found nothing or failed
searchFailure(query, message) ==
  Obj3("success", JBool(FALSE), "message", JStr(message), "data",
       IF query.impl = "search.ts"
         THEN JObj([d \in {"items", "total", "page", "limit"} |->
                CASE d = "items" -> JArr(<<>>)
                  [] d = "total" -> JNum(0)
                  [] d = "page" -> JNum(1)
                  [] OTHER -> OrTen(query.limit)])
         ELSE Obj2("items", JArr(<<>>), "pagination", EmptyPagination))

\* results.map(...) throws when results is no array or a result has no id
CanTransformResults(results) ==
  /\ results.t = "array"
  /\ \A i \in 1..Len(results.items) :
       CanRead(results.items[i]) /\ CanRead(Prop(results.items[i], "id"))

TransformResults(results) ==
  JArr([i \in 1..Len(results.items) |->
    Obj2("id", JStr(IdSegment(Prop(results.items[i], "id"))),
         "title", Prop(results.items[i], "title"))])

searchSuccess(query, data) ==
  LET page == Prop(data, "page")
      pagination(prev) ==
        JObj([p \in {"page", "limit", "total", "totalPages", "hasNext", prev} |->
          CASE p = "page" -> page
            [] p = "limit" -> Prop(data, "size")
            [] p = "total" -> Prop(data, "total")
            [] p = "totalPages" -> Prop(data, "total_pages")
            [] p = "hasNext" -> JBool(JLess(page, Prop(data, "total_pages")))
            [] OTHER -> JBool(JLess(JNum(1), page))])
  IN Obj3("success", JBool(TRUE), "message", JStr("Found"), "data",
          IF query.impl = "search.ts"
            THEN JObj([d \in {"items", "total", "page", "limit", "pagination"} |->
                   CASE d = "items" -> TransformResults(Prop(data, "results"))
                     [] d = "total" -> Prop(data, "total")
                     [] d = "page" -> page
                     [] d = "limit" -> Prop(data, "size")
                     [] OTHER -> pagination("hasPrev")])
            ELSE Obj2("items", TransformResults(Prop(data, "results")),
                      "pagination", pagination("hasPrevious")))

\* fallbackSearch: the pages the fallback asks for
fallbackSearchStart(query) ==
  LET step == getPagesStart([search |-> JText(query.query), limit |-> OrTen(query.limit),
                             offset |-> IF Truthy(query.offset) THEN query.offset ELSE JNum(0),
                             status |-> JStr("published")])
  IN [step EXCEPT !.stage = 2]

\* page => ({id: String(page.id), ...}) throws when a page is null
CanTransformPages(items) ==
  /\ items.t = "array"
  /\ \A i \in 1..Len(items.items) : CanRead(items.items[i])

TransformPages(items) ==
  JArr([i \in 1..Len(items.items) |->
    Obj2("id", JStr(IdSegment(Prop(items.items[i], "id"))),
         "title", Prop(items.items[i], "title"))])

\* fallbackSearch after the answer of the pages API
fallbackSearchResume(query, rr) ==
  IF rr.kind = "threw" THEN Threw(rr.error)
  ELSE LET response == rr.value
           data == Prop(response, "data")
       IN IF ~Truthy(Prop(response, "success")) THEN Returned(searchFailure(query, "No results found"))
          ELSE IF ~CanRead(data) THEN Threw(TypeError)
          ELSE IF ~Truthy(Prop(data, "items")) THEN Returned(searchFailure(query, "No results found"))
          ELSE IF ~CanTransformPages(Prop(data, "items")) THEN Threw(TypeError)
          ELSE Returned(Obj3("success", JBool(TRUE), "message", JStr("Found (fallback search)"),
                             "data", Obj2("items", TransformPages(Prop(data, "items")),
                                          "pagination", Prop(data, "pagination"))))

\* The catch block of search
searchCatch(query) ==
  IF query.impl = "search.ts"
    THEN DoneStep(Returned(searchFailure(query, "Search failed")))
    ELSE fallbackSearchStart(query)

\* search after the answer to step `stage`
searchResume(query, stage, rr) ==
  IF stage = 1
    THEN IF rr.kind = "threw" THEN searchCatch(query)
         ELSE LET response == rr.value
                  data == Prop(response, "data")
              IN IF Truthy(Prop(response, "success")) /\ Truthy(data)
                   THEN IF CanTransformResults(Prop(data, "results"))
                          THEN DoneStep(Returned(searchSuccess(query, data)))
                          ELSE searchCatch(query)
                   ELSE DoneStep(Returned(searchFailure(query, "No results found")))
    ELSE LET fb == fallbackSearchResume(query, rr)
         IN IF fb.kind = "threw"
              THEN DoneStep(Returned(searchFailure(query, "Search temporarily unavailable")))
              ELSE DoneStep(fb)

----------------------------------------------------------------------------
(* SearchService.getSuggestions and getPopularSearches *)

staticSuggestions ==
  << <<1, <<"s", "t", "e", "u", "e", "r", "b", "e", "r", "a", "t", "e", "r">>>>,
     <<2, <<"b", "e", "r", "a", "t", "u", "n", "g">>>>,
     <<3, <<"ö", "s", "t", "e", "r", "r", "e", "i", "c", "h">>>>,
     <<4, <<"k", "o", "n", "t", "a", "k", "t">>>>,
     <<5, <<"u", "n", "t", "e", "r", "n", "e", "h", "m", "e", "n">>>>,
     <<6, <<"s", "e", "r", "v", "i", "c", "e">>>> >>

staticPopularSearches ==
  << <<1, <<"s", "t", "e", "u", "e", "r", "b", "e", "r", "a", "t", "e", "r">>>>,
     <<2, <<"b", "e", "r", "a", "t", "u", "n", "g">>>>,
     <<3, <<"ö", "s", "t", "e", "r", "r", "e", "i", "c", "h">>>>,
     <<4, <<"k", "o", "n", "t", "a", "k", "t">>>>,
     <<5, <<"s", "e", "r", "v", "i", "c", "e">>>>,
     <<6, <<"u", "n", "t", "e", "r", "n", "e", "h", "m", "e", "n">>>>,
     <<7, <<"h", "i", "l", "f", "e">>>>,
     <<8, <<"s", "u", "p", "p", "o", "r", "t">>>> >>

SuggestionOf(id, text) == Obj3("id", JStr(ToString(id)), "text", JText(text), "type", JStr("term"))

RECURSIVE FilterIncluding(_, _)
FilterIncluding(words, needle) ==
  IF Len(words) = 0 THEN <<>>
  ELSE IF Includes(ToLowerCase(words[1][2]), needle)
    THEN <<words[1]>> \o FilterIncluding(Tail(words), needle)
  ELSE FilterIncluding(Tail(words), needle)

\* A fallback list that is not filtered by the term
getStaticSuggestionsUnfiltered(term, limit) ==
  LET kept == SliceTo(staticSuggestions, limit)
  IN JArr([i \in 1..Len(kept) |-> SuggestionOf(kept[i][1], kept[i][2])])

\* getStaticSuggestions: the static entries whose text includes the term, cut to limit
getStaticSuggestions(term, limit) ==
  LET kept == SliceTo(FilterIncluding(staticSuggestions, ToLowerCase(term)), limit)
  IN JArr([i \in 1..Len(kept) |-> SuggestionOf(kept[i][1], kept[i][2])])

SuggestResponse(data, message) ==
  Obj3("success", JBool(TRUE), "data", data, "message", JStr(message))

\* getSuggestions(term, limit) up to its request
getSuggestionsStart(term, limit) ==
  IF Len(Trim(term)) = 0
    THEN DoneStep(Returned(Obj2("data", JArr(<<>>), "success", JBool(TRUE))))
    ELSE CallStep(1, "GET",
                  get(<<"search", "sites", siteId, "suggest">>,
                      << <<"q", JText(term)>>, <<"limit", limit>> >>),
                  "default")

\* suggestion.text || suggestion.title || suggestion
SuggestionText(suggestion) ==
  IF Truthy(Prop(suggestion, "text")) THEN Prop(suggestion, "text")
  ELSE IF Truthy(Prop(suggestion, "title")) THEN Prop(suggestion, "title")
  ELSE suggestion

\* getSuggestions(term, limit) after the answer of the suggest API
getSuggestionsResume(term, limit, rr) ==
  IF rr.kind = "threw"
    THEN DoneStep(Returned(SuggestResponse(getStaticSuggestions(term, limit),
                                           "Fallback suggestions provided")))
  ELSE LET response == rr.value
           data == Prop(response, "data")
       IN IF Truthy(Prop(response, "success")) /\ data.t = "array" /\ Len(data.items) > 0
            THEN IF \A i \in 1..Len(data.items) : CanRead(data.items[i])
                   THEN DoneStep(Returned(SuggestResponse(
                          JArr([i \in 1..Len(data.items) |->
                            Obj2("text", SuggestionText(data.items[i]),
                                 "type", IF Truthy(Prop(data.items[i], "type"))
                                           THEN Prop(data.items[i], "type") ELSE JStr("term"))]),
                          "API suggestions loaded successfully")))
                   ELSE DoneStep(Returned(SuggestResponse(getStaticSuggestions(term, limit),
                                                          "Fallback suggestions provided")))
          ELSE LET static == getStaticSuggestions(term, limit)
               IN DoneStep(Returned(SuggestResponse(static,
                    IF Len(static.items) > 0 THEN "Static suggestions provided"
                                             ELSE "No suggestions found")))

\* getPopularSearches(limit): the first entries of the static list, no request
getPopularSearches(limit) ==
  LET kept == SliceTo(staticPopularSearches, limit)
  IN DoneStep(Returned(Obj3("success", JBool(TRUE),
                            "data", JArr([i \in 1..Len(kept) |-> SuggestionOf(kept[i][1], kept[i][2])]),
                            "message", JStr("Popular searches loaded successfully"))))

----------------------------------------------------------------------------
(* Recent searches in localStorage, and what SearchInterface loads          *)

maxRecentSearches == 10

\* Array.prototype.filter(search => search !== term)
RECURSIVE Without(_, _)
Without(list, term) ==
  IF Len(list) = 0 THEN <<>>
  ELSE IF list[1] = term THEN Without(Tail(list), term)
  ELSE <<list[1]>> \o Without(Tail(list), term)

\* A save that leaves the earlier entry of the term in the list
saveRecentSearchKeepingDuplicates(existing, term) ==
  LET recentSearches == IF Truthy(existing) THEN existing.items ELSE <<>>
  IN JArr(SliceTo(<<term>> \o recentSearches, JNum(maxRecentSearches)))

\* SearchService.saveRecentSearch(term) in a browser: the item it stores
saveRecentSearch(existing, term) ==
  LET recentSearches == IF Truthy(existing) THEN existing.items ELSE <<>>
  IN JArr(SliceTo(<<term>> \o Without(recentSearches, term), JNum(maxRecentSearches)))

\* ClientSearchService.getRecentSearches(): the stored list, empty without an item
clientGetRecentSearches(stored) == IF Truthy(stored) THEN stored.items ELSE <<>>

\* ClientSearchService.saveRecentSearch(query): the item it stores
clientSaveRecentSearch(stored, query) ==
  LET filtered == Without(clientGetRecentSearches(stored), query)
  IN JArr(SliceTo(<<query>> \o filtered, JNum(10)))

\* clearRecentSearches(): localStorage.removeItem leaves no item
clearRecentSearches == JNull

\* SearchService.getRecentSearches(limit): the first entries of the stored list
getRecentSearches(stored, limit) ==
  IF ~Truthy(stored) THEN <<>> ELSE SliceTo(stored.items, limit)

\* SearchInterface.loadInitialData: the recent and the popular searches it shows
loadInitialData(stored) ==
  LET popularData == getPopularSearches(JNum(5)).result.value
  IN DoneStep(Returned([recentSearches |-> getRecentSearches(stored, JNum(5)),
                        popularSearches |-> IF Truthy(Prop(popularData, "success"))
                                              THEN Prop(popularData, "data").items ELSE <<>>]))

----------------------------------------------------------------------------
(* The proxy routes GET /api/search and GET /api/search/suggestions.       *)
(* A request is the record of its search parameters, JNull for a missing   *)
(* one (searchParams.get returns null).                                    *)

HttpResponse(status, body) == [status |-> status, body |-> body]

QueryRequired == HttpResponse(400, Obj2("error", JStr("Query parameter is required"), "details", Undefined))

OrDefault(param, default) == IF Truthy(param) THEN param.s ELSE default

\* A route that takes page * limit for the offset
routeSearchQueryOffByOne(req) ==
  LET page == parseInt(OrDefault(req.page, <<"1">>))
      limit == parseInt(OrDefault(req.limit, <<"1", "0">>))
  IN [query |-> Trim(req.q.s),
      limit |-> limit,
      offset |-> JMul(page, limit),
      filters |-> Obj2("category", IF Truthy(req.category) THEN req.category ELSE Undefined,
                       "tags", IF req.tags.t = "null" THEN Undefined ELSE JArr(Split(req.tags.s))),
      impl |-> req.impl, env |-> req.env]

\* The SearchQuery the search route hands to searchService.search
routeSearchQuery(req) ==
  LET page == parseInt(OrDefault(req.page, <<"1">>))
      limit == parseInt(OrDefault(req.limit, <<"1", "0">>))
  IN [query |-> Trim(req.q.s),
      limit |-> limit,
      offset |-> JMul(JSub(page, JNum(1)), limit),
      filters |-> Obj2("category", IF Truthy(req.category) THEN req.category ELSE Undefined,
                       "tags", IF req.tags.t = "null" THEN Undefined ELSE JArr(Split(req.tags.s))),
      impl |-> req.impl, env |-> req.env]

\* A route that tests the query for null only
routeRejectsMissingOnly(q) == ~Truthy(q)

\* !query || query.trim().length === 0
routeRejects(q) == ~Truthy(q) \/ Len(Trim(q.s)) = 0

\* The end of a route: the service's response as JSON, 500 for an exception
routeFinish(step, failure) ==
  IF step.kind = "call" THEN step
  ELSE IF step.result.kind = "returned" THEN DoneStep(Returned(HttpResponse(200, step.result.value)))
  ELSE DoneStep(Returned(HttpResponse(500, Obj2("error", JStr(failure), "details", JStr(step.result.error.name)))))

routeSearchStart(req) ==
  IF routeRejects(req.q) THEN DoneStep(Returned(QueryRequired))
  ELSE routeFinish(searchStart(routeSearchQuery(req)), "Search failed")

routeSearchResume(req, stage, rr) ==
  routeFinish(searchResume(routeSearchQuery(req), stage, rr), "Search failed")

routeSuggestionsLimit(req) == parseInt(OrDefault(req.limit, <<"5">>))

routeSuggestionsStart(req) ==
  IF routeRejects(req.q) THEN DoneStep(Returned(QueryRequired))
  ELSE routeFinish(getSuggestionsStart(Trim(req.q.s), routeSuggestionsLimit(req)),
                   "Failed to get suggestions")

routeSuggestionsResume(req, rr) ==
  routeFinish(getSuggestionsResume(Trim(req.q.s), routeSuggestionsLimit(req), rr),
              "Failed to get suggestions")

----------------------------------------------------------------------------
(* ClientSearchService.search: the browser's search, which goes through    *)
(* GET /api/search.                                                        *)

DigitChar(d) ==
  CASE d = 0 -> "0" [] d = 1 -> "1" [] d = 2 -> "2" [] d = 3 -> "3" [] d = 4 -> "4"
    [] d = 5 -> "5" [] d = 6 -> "6" [] d = 7 -> "7" [] d = 8 -> "8" [] OTHER -> "9"

\* Number.prototype.toString() of an integer
RECURSIVE NumToText(_)
NumToText(n) ==
  IF n < 0 THEN <<"-">> \o NumToText(0 - n)
  ELSE IF n < 10 THEN <<DigitChar(n)>>
  ELSE NumToText(n \div 10) \o <<DigitChar(n % 10)>>

\* A client that numbers the pages from 0
clientSearchRequestZeroBased(query) ==
  [q |-> JText(query.query),
   limit |-> IF Truthy(query.limit) THEN JText(NumToText(query.limit.n)) ELSE JNull,
   page |-> IF Truthy(query.offset)
              THEN JText(NumToText(FloorDiv(query.offset.n, OrTen(query.limit).n)))
              ELSE JNull,
   category |-> IF Truthy(Prop(query.filters, "category")) THEN Prop(query.filters, "category") ELSE JNull,
   tags |-> IF Truthy(Prop(query.filters, "tags")) /\ Len(Prop(query.filters, "tags").items) > 0
              THEN JText(Join(Prop(query.filters, "tags").items)) ELSE JNull,
   impl |-> query.impl, env |-> query.env]

\* The search parameters ClientSearchService.search sends to /api/search
clientSearchRequest(query) ==
  [q |-> JText(query.query),
   limit |-> IF Truthy(query.limit) THEN JText(NumToText(query.limit.n)) ELSE JNull,
   page |-> IF Truthy(query.offset)
              THEN JText(NumToText(FloorDiv(query.offset.n, OrTen(query.limit).n) + 1))
              ELSE JNull,
   category |-> IF Truthy(Prop(query.filters, "category")) THEN Prop(query.filters, "category") ELSE JNull,
   tags |-> IF Truthy(Prop(query.filters, "tags")) /\ Len(Prop(query.filters, "tags").items) > 0
              THEN JText(Join(Prop(query.filters, "tags").items)) ELSE JNull,
   impl |-> query.impl, env |-> query.env]

\* ClientSearchService.search from the step the route is at: the JSON of an OK
\* response is returned, any other response is thrown as an Error
clientSearchFinish(step) ==
  IF step.kind = "call" THEN step
  ELSE IF step.result.value.status \in 200..299 THEN DoneStep(Returned(step.result.value.body))
  ELSE DoneStep(Threw([name |-> "Error", message |-> Prop(step.result.value.body, "error")]))

clientSearchStart(query) == clientSearchFinish(routeSearchStart(clientSearchRequest(query)))

clientSearchResume(query, stage, rr) ==
  clientSearchFinish(routeSearchResume(clientSearchRequest(query), stage, rr))

----------------------------------------------------------------------------
(* On-demand revalidation: POST of app/api/search/suggestions/route.ts.    *)
(* A request is its parsed body and the REVALIDATION_SECRET of the         *)
(* environment, Undefined when the variable is not set.                    *)

\* The entries of a body field when it is an array, none otherwise
ArrayItems(v) == IF v.t = "array" THEN v.items ELSE <<>>

\* POST: the response (without its timestamp), and the revalidatePath and
\* revalidateTag calls made
revalidatePost(req) ==
  LET body == req.body
      secret == Prop(body, "secret")
      paths == Prop(body, "paths")
      tags == Prop(body, "tags")
  IN IF body.t = "notjson" \/ ~CanRead(body)
       THEN [response |-> HttpResponse(500, Obj2("message", JStr("Revalidation failed"),
                                                "error", JStr("TypeError"))),
             revalidated |-> <<>>]
     ELSE IF secret # req.REVALIDATION_SECRET
       THEN [response |-> HttpResponse(401, JObj([k \in {"message"} |-> JStr("Invalid secret")])),
             revalidated |-> <<>>]
     ELSE [response |-> HttpResponse(200, Obj2("success", JBool(TRUE),
                                               "message", JStr("Revalidation completed"))),
           revalidated |->
             [i \in 1..Len(ArrayItems(paths)) |-> <<"revalidatePath", ArrayItems(paths)[i]>>] \o
             [i \in 1..Len(ArrayItems(tags)) |-> <<"revalidateTag", ArrayItems(tags)[i]>>]]

----------------------------------------------------------------------------
(* The search results page: SearchResults and SearchPagination.  A render  *)
(* is the record of what the component shows.                              *)

\* Math.max(a, b) and Math.min(a, b) on integers
Max(a, b) == IF a > b THEN a ELSE b
Min(a, b) == IF a < b THEN a ELSE b

\* getVisiblePages(): page numbers, 0 standing for the dots
getVisiblePages(currentPage, totalPages) ==
  LET delta == 2
      numbers == currentPage.t = "num" /\ totalPages.t = "num"
      from == Max(2, currentPage.n - delta)
      to == Min(totalPages.n - 1, currentPage.n + delta)
      range == IF numbers /\ from <= to THEN [i \in 1..(to - from + 1) |-> from + i - 1] ELSE <<>>
      head == IF numbers /\ currentPage.n - delta > 2 THEN <<1, 0>> ELSE <<1>>
      last == IF totalPages.t = "num" THEN totalPages.n ELSE 0
      tail == IF numbers /\ currentPage.n + delta < totalPages.n - 1 THEN <<0, last>> ELSE <<last>>
  IN head \o range \o tail

\* SearchPagination: null for a single page, else the two buttons and the page numbers
SearchPagination(currentPage, totalPages, hasNext, hasPrevious) ==
  IF ~JLess(JNum(1), totalPages) THEN JNull
  ELSE [t |-> "SearchPagination", currentPage |-> currentPage, totalPages |-> totalPages,
        previousDisabled |-> ~Truthy(hasPrevious), nextDisabled |-> ~Truthy(hasNext),
        visiblePages |-> getVisiblePages(currentPage, totalPages)]

SearchView(name, response, pagination) ==
  [view |-> name, response |-> response, pagination |-> pagination]

\* The searchQuery SearchResults builds from its props
searchResultsQuery(props) ==
  [query |-> props.query, limit |-> JNum(10),
   offset |-> JMul(JSub(props.page, JNum(1)), JNum(10)),
   filters |-> Obj2("category", props.category, "tags", props.tags),
   impl |-> props.impl, env |-> props.env]

\* SearchResults up to its search
SearchResultsStart(props) ==
  IF Len(Trim(props.query)) = 0 THEN DoneStep(Returned(SearchView("SearchEmptyState", Undefined, JNull)))
  ELSE searchStart(searchResultsQuery(props))

\* SearchResults after the search: what it renders from the response
SearchResultsRender(response) ==
  LET data == Prop(response, "data")
      pagination == Prop(data, "pagination")
  IN IF ~Truthy(Prop(response, "success")) THEN SearchView("SearchErrorState", response, JNull)
     ELSE IF ~CanRead(data) \/ ~CanRead(Prop(data, "items")) \/ ~CanRead(pagination)
       THEN SearchView("SearchErrorState", Undefined, JNull)
     ELSE IF Len(Prop(data, "items").items) = 0 THEN SearchView("SearchNoResults", response, JNull)
     ELSE SearchView("SearchResults", response,
            IF JLess(JNum(1), Prop(pagination, "totalPages"))
              THEN SearchPagination(Prop(pagination, "page"), Prop(pagination, "totalPages"),
                                    Prop(pagination, "hasNext"), Prop(pagination, "hasPrevious"))
              ELSE JNull)

SearchResultsResume(props, stage, rr) ==
  LET step == searchResume(searchResultsQuery(props), stage, rr)
  IN IF step.kind = "call" THEN step
     ELSE IF step.result.kind = "threw"
       THEN DoneStep(Returned(SearchView("SearchErrorState", Undefined, JNull)))
     ELSE DoneStep(Returned(SearchResultsRender(step.result.value)))

----------------------------------------------------------------------------
(* The dynamic page route [slug]: generateMetadata and DynamicPage.        *)

\* What notFound() throws: the framework answers it with the 404 page
NotFound == Threw([name |-> "NEXT_NOT_FOUND"])

PageNotFoundMetadata ==
  [title |-> JStr("Page Not Found"),
   description |-> JStr("The requested page could not be found.")]

\* a || b
Or(a, b) == IF Truthy(a) THEN a ELSE b

\* The title and description generateMetadata reads from a page; the other
\* fields are read from the page the same way, with optional chaining
pageMetadata(page) ==
  LET metadata == Prop(page, "metadata")
  IN [title |-> Or(Prop(metadata, "title"), Prop(page, "title")),
      description |-> Or(Or(Prop(metadata, "description"), Prop(page, "excerpt")), JStr(""))]

\* generateMetadata and DynamicPage both start with getPageBySlug({ slug })
slugParams(props) == [slug |-> props.slug, preview |-> FALSE]

\* generateMetadata after getPageBySlug has finished with `result`
generateMetadataFinish(result) ==
  IF result.kind = "threw" THEN Returned(PageNotFoundMetadata)
  ELSE IF ~Truthy(Prop(result.value, "success")) \/ ~Truthy(Prop(result.value, "data"))
    THEN Returned(PageNotFoundMetadata)
  ELSE Returned(pageMetadata(Prop(result.value, "data")))

\* A route whose catch block renders an empty page
DynamicPageFinishLenient(result) ==
  IF result.kind = "threw" THEN Returned([view |-> "DynamicPage", page |-> JNull, hasSidebarElements |-> FALSE])
  ELSE IF ~Truthy(Prop(result.value, "success")) \/ ~Truthy(Prop(result.value, "data")) THEN NotFound
  ELSE Returned([view |-> "DynamicPage", page |-> Prop(result.value, "data"),
                 hasSidebarElements |-> FALSE])

\* DynamicPage after getPageBySlug has finished with `result`
DynamicPageFinish(result) ==
  IF result.kind = "threw" THEN NotFound
  ELSE IF ~Truthy(Prop(result.value, "success")) \/ ~Truthy(Prop(result.value, "data")) THEN NotFound
  ELSE LET page == Prop(result.value, "data")
           elements == Prop(page, "page_elements")
       IN IF CanRead(elements) /\ elements.t # "array" THEN NotFound
          ELSE Returned([view |-> "DynamicPage", page |-> page,
                         hasSidebarElements |->
                           /\ CanRead(elements)
                           /\ \E i \in 1..Len(elements.items) :
                                Prop(elements.items[i], "section") = JStr("sidebar")])

\* Either entry of the route, from the step getPageBySlug is at
slugRoute(entry, step) ==
  IF step.kind = "call" THEN step
  ELSE IF entry = "generateMetadata" THEN DoneStep(generateMetadataFinish(step.result))
  ELSE DoneStep(DynamicPageFinish(step.result))

----------------------------------------------------------------------------
(* Content references (components/content/content-references.tsx):         *)
(* resolveContentReferences and the three views that load through it.      *)

referencePatterns ==
  <<"references", "refs", "items", "content_items",
    "news_ids", "article_ids", "post_ids", "page_ids",
    "news", "articles", "posts", "pages",
    "content", "related_content">>

\* for (const pattern of referencePatterns): the first field that holds an array
RECURSIVE findReferenceData(_, _)
findReferenceData(data, i) ==
  IF i > Len(referencePatterns) THEN <<>>
  ELSE LET value == Prop(data, referencePatterns[i])
       IN IF Truthy(value) /\ value.t = "array" THEN value.items
          ELSE findReferenceData(data, i + 1)

\* referenceData.some(item => typeof item === 'object' && item.title):
\* "throws" when a null is reached before an object with a title
RECURSIVE someResolved(_)
someResolved(referenceData) ==
  IF Len(referenceData) = 0 THEN "false"
  ELSE IF referenceData[1].t = "null" THEN "throws"
  ELSE IF referenceData[1].t = "object" /\ Truthy(Prop(referenceData[1], "title")) THEN "true"
  ELSE someResolved(Tail(referenceData))

Text_news == <<"n", "e", "w", "s">>
Text_article == <<"a", "r", "t", "i", "c", "l", "e">>
Text_post == <<"p", "o", "s", "t">>
Text_content == <<"c", "o", "n", "t", "e", "n", "t">>

\* The query of the search strategy
searchQueryOf(data, contentType) ==
  IF Includes(contentType, Text_news) THEN Text_news
  ELSE IF Includes(contentType, Text_article) THEN Text_article
  ELSE IF Includes(contentType, Text_post) THEN Text_post
  ELSE IF Truthy(Prop(data, "search_term")) THEN Prop(data, "search_term").s
  ELSE IF Truthy(Prop(data, "category")) THEN Prop(data, "category").s
  ELSE Text_content

\* The argument of searchService.search
resolveSearchQuery(props, limit) ==
  [query |-> searchQueryOf(props.data, props.contentType), limit |-> OrTen(limit),
   offset |-> Undefined, filters |-> Undefined, impl |-> props.impl, env |-> props.env]

\* value.length > 0
NonEmptyLength(value) ==
  CASE value.t = "array" -> Len(value.items) > 0
    [] value.t = "text" -> Len(value.s) > 0
    [] value.t = "str" -> value.s # ""
    [] OTHER -> FALSE

\* resolveContentReferences up to its first await
resolveContentReferencesStart(props, limit) ==
  LET referenceData == findReferenceData(props.data, 1)
      resolved == someResolved(referenceData)
  IN IF Len(referenceData) > 0 /\ resolved = "throws" THEN DoneStep(Threw(TypeError))
     ELSE IF Len(referenceData) > 0 /\ resolved = "true"
       THEN DoneStep(Returned(JArr(SliceTo(referenceData, OrTen(limit)))))
     ELSE searchStart(resolveSearchQuery(props, limit))

\* The fallback of resolveContentReferences: the latest published pages
resolvePagesStart(limit) ==
  LET step == getPagesStart([status |-> JStr("published"), limit |-> OrTen(limit),
                             offset |-> Undefined, search |-> Undefined])
  IN [step EXCEPT !.stage = 3]

\* resolveContentReferences after the answer to step `stage`: stages 1 and 2 are
\* the search, stage 3 is the pages fallback
resolveContentReferencesResume(props, limit, stage, rr) ==
  IF stage < 3
    THEN LET step == searchResume(resolveSearchQuery(props, limit), stage, rr)
         IN IF step.kind = "call" THEN step
            ELSE IF step.result.kind = "threw" THEN resolvePagesStart(limit)
            ELSE LET searchResponse == step.result.value
                     data == Prop(searchResponse, "data")
                 IN IF ~Truthy(Prop(searchResponse, "success")) THEN resolvePagesStart(limit)
                    ELSE IF ~CanRead(data) THEN resolvePagesStart(limit)
                    ELSE IF Truthy(Prop(data, "items")) /\ NonEmptyLength(Prop(data, "items"))
                      THEN DoneStep(Returned(Prop(data, "items")))
                    ELSE resolvePagesStart(limit)
  ELSE IF rr.kind = "threw" THEN DoneStep(rr)
  ELSE LET response == rr.value
           data == Prop(response, "data")
       IN IF ~Truthy(Prop(response, "success")) THEN DoneStep(Returned(JArr(<<>>)))
          ELSE IF ~CanRead(data) THEN DoneStep(Threw(TypeError))
          ELSE IF Truthy(Prop(data, "items")) /\ NonEmptyLength(Prop(data, "items"))
            THEN DoneStep(Returned(Prop(data, "items")))
          ELSE DoneStep(Returned(JArr(<<>>)))

\* The limit each view passes to resolveContentReferences
limitOf(component) == IF component = "ContentReferenceTeaser" THEN JNum(3) ELSE Undefined

\* getItemId, getItemUrl: String(item.id) and 'slug' in item throw on anything
\* but an object
CanRenderItem(item) == item.t \in {"object", "array"}

\* What a view shows once loadContent has settled with `resolved`
ContentReferenceView(component, resolved) ==
  IF resolved.kind = "threw"
    THEN [view |-> "error", items |-> <<>>, resolved |-> resolved]
  ELSE IF resolved.value.t # "array" \/ \E i \in 1..Len(resolved.value.items) :
                                          ~CanRenderItem(resolved.value.items[i])
    THEN [view |-> "render throws", items |-> <<>>, resolved |-> resolved]
  ELSE IF Len(resolved.value.items) = 0
    THEN [view |-> IF component = "ContentReferenceTeaser" THEN "null" ELSE "No content available",
          items |-> <<>>, resolved |-> resolved]
  ELSE [view |-> "content", items |-> resolved.value.items, resolved |-> resolved]

\* A view as an operation: the steps of loadContent, then what it renders
ContentReferenceStep(component, step) ==
  IF step.kind = "call" THEN step
  ELSE DoneStep(Returned(ContentReferenceView(component, step.result)))

ContentReferenceComponents ==
  {"ContentReferenceList", "ContentReferenceGrid", "ContentReferenceTeaser"}

----------------------------------------------------------------------------
(* RichContentRenderer (components/content/rich-content-renderer.tsx), in   *)
(* its two versions: impl "part_006" renders one list, impl "part_008"     *)
(* groups the elements by section.  PageContent hands it the page.         *)

\* (a, b) => a.position - b.position is negative
positionBefore(a, b) ==
  LET difference == JSub(Prop(a, "position"), Prop(b, "position"))
  IN difference.t = "num" /\ difference.n < 0

\* Array.prototype.sort with that comparator: stable, ascending
RECURSIVE insertByPosition(_, _)
insertByPosition(sorted, element) ==
  IF Len(sorted) = 0 THEN <<element>>
  ELSE IF positionBefore(element, sorted[1]) THEN <<element>> \o sorted
  ELSE <<sorted[1]>> \o insertByPosition(Tail(sorted), element)

RECURSIVE sortByPosition(_)
sortByPosition(elements) ==
  IF Len(elements) = 0 THEN <<>>
  ELSE insertByPosition(sortByPosition(SubSeq(elements, 1, Len(elements) - 1)),
                        elements[Len(elements)])

\* element => !element.section || element.section === 'main'
inMain(element) ==
  ~Truthy(Prop(element, "section")) \/ Prop(element, "section") = JStr("main")

\* element => element.section === 'sidebar'
inSidebar(element) == Prop(element, "section") = JStr("sidebar")

\* Array.prototype.filter with inMain or inSidebar
RECURSIVE filterElements(_, _)
filterElements(elements, sidebar) ==
  IF Len(elements) = 0 THEN <<>>
  ELSE IF (IF sidebar THEN inSidebar(elements[1]) ELSE inMain(elements[1]))
    THEN <<elements[1]>> \o filterElements(Tail(elements), sidebar)
  ELSE filterElements(Tail(elements), sidebar)

\* <PageElementRenderer key={element.id} element={element} />: the switch on
\* content_element.type_identifier renders the element
PageElementRenderer(element) ==
  [renderer |-> "PageElementRenderer", key |-> Prop(element, "id"), element |-> element,
   type_identifier |-> Prop(Prop(element, "content_element"), "type_identifier")]

\* <ContentBlock key={index} block={block} />
ContentBlock(block, index) == [renderer |-> "ContentBlock", key |-> index, block |-> block]

RenderedView(layout, main, sidebar, blocks) ==
  [layout |-> layout, main |-> main, sidebar |-> sidebar, blocks |-> blocks]

\* value && Array.isArray(value) && value.length > 0
FilledArray(value) == Truthy(value) /\ value.t = "array" /\ Len(value.items) > 0

\* RichContentRenderer({content, pageElements})
RichContentRenderer(content, pageElements, impl) ==
  IF FilledArray(pageElements)
    THEN IF impl = "part_006"
           THEN LET sorted == sortByPosition(pageElements.items)
                IN RenderedView("list", [i \in 1..Len(sorted) |-> PageElementRenderer(sorted[i])],
                                <<>>, <<>>)
           ELSE LET mainElements == sortByPosition(filterElements(pageElements.items, FALSE))
                    sidebarElements == sortByPosition(filterElements(pageElements.items, TRUE))
                    main == [i \in 1..Len(mainElements) |-> PageElementRenderer(mainElements[i])]
                    sidebar == [i \in 1..Len(sidebarElements) |->
                                  PageElementRenderer(sidebarElements[i])]
                IN IF Len(sidebarElements) > 0
                     THEN RenderedView("sidebar", main, sidebar, <<>>)
                     ELSE RenderedView("full width", main, <<>>, <<>>)
  ELSE IF FilledArray(content)
    THEN RenderedView("legacy", <<>>, <<>>,
                      [i \in 1..Len(content.items) |-> ContentBlock(content.items[i], i - 1)])
  ELSE RenderedView("null", <<>>, <<>>, <<>>)

\* PageContent({page}): the content part of the article
PageContent(page, impl) ==
  IF \/ Truthy(Prop(page, "page_elements")) /\ NonEmptyLength(Prop(page, "page_elements"))
     \/ Truthy(Prop(page, "content")) /\ NonEmptyLength(Prop(page, "content"))
    THEN RichContentRenderer(Prop(page, "content"), Prop(page, "page_elements"), impl)
    ELSE RenderedView("No content available for this page.", <<>>, <<>>, <<>>)

----------------------------------------------------------------------------
(* The operations the environment can invoke, and how each goes on *)

Start(entry, input) ==
  CASE entry = "request" -> CallStep(1, input.method, input.endpoint, "default")
    [] entry = "healthCheck" -> CallStep(1, "GET", get(<<"health">>, <<>>), "default")
    [] entry = "getPages" -> getPagesStart(input)
    [] entry = "getPageBySlug" -> getPageBySlugStart(input)
    [] entry = "search" -> searchStart(input)
    [] entry = "getSuggestions" -> getSuggestionsStart(input.term, input.limit)
    [] entry = "getPopularSearches" -> getPopularSearches(input.limit)
    [] entry = "loadInitialData" -> loadInitialData(input.stored)
    [] entry = "GET /api/search" -> routeSearchStart(input)
    [] entry = "SearchResults" -> SearchResultsStart(input)
    [] entry \in ContentReferenceComponents ->
         ContentReferenceStep(entry, resolveContentReferencesStart(input, limitOf(entry)))
    [] entry = "ClientSearchService.search" -> clientSearchStart(input)
    [] entry \in {"generateMetadata", "DynamicPage"} ->
         slugRoute(entry, getPageBySlugStart(slugParams(input)))
    [] entry = "POST /api/revalidate" -> DoneStep(Returned(revalidatePost(input)))
    [] entry = "PageContent" -> DoneStep(Returned(PageContent(input.page, input.impl)))
    [] OTHER -> routeSuggestionsStart(input)

Resume(entry, input, stage, rr) ==
  CASE entry = "request" -> DoneStep(rr)
    [] entry = "healthCheck" -> DoneStep(Returned(JBool(rr.kind = "returned")))
    [] entry = "getPages" -> getPagesResume(rr)
    [] entry = "getPageBySlug" -> getPageBySlugResume(input, stage, rr)
    [] entry = "search" -> searchResume(input, stage, rr)
    [] entry = "getSuggestions" -> getSuggestionsResume(input.term, input.limit, rr)
    [] entry = "GET /api/search" -> routeSearchResume(input, stage, rr)
    [] entry = "SearchResults" -> SearchResultsResume(input, stage, rr)
    [] entry \in ContentReferenceComponents ->
         ContentReferenceStep(entry,
           resolveContentReferencesResume(input, limitOf(entry), stage, rr))
    [] entry = "ClientSearchService.search" -> clientSearchResume(input, stage, rr)
    [] entry \in {"generateMetadata", "DynamicPage"} ->
         slugRoute(entry, getPageBySlugResume(slugParams(input), stage, rr))
    [] OTHER -> routeSuggestionsResume(input, rr)

StorageKeys == {"cognitor-recent-searches", "recent_searches"}

\* The localStorage key of each of the two services
StorageKey(service) ==
  IF service = "SearchService" THEN "cognitor-recent-searches" ELSE "recent_searches"

\* No save since storage was last empty
EmptyLog ==
  [service |-> "none", lastSave |-> [i \in 1..NTerms |-> 0], saves |-> 0, resaves |-> 0,
   cleared |-> FALSE]

IdleTask ==
  [pc |-> "idle", entry |-> "", input |-> Undefined, stage |-> 0, call |-> Undefined,
   invocations |-> 0, fetches |-> <<>>, outcomes |-> <<>>, result |-> Undefined]

RateLimitError == [name |-> "RateLimitError"]

\* Runs an operation from `step` to its next await: request runs checkRateLimit and
\* buildUrl and issues its fetch; a finished operation keeps its result.
RECURSIVE Drive(_, _, _, _)
Drive(task, step, tracker, time) ==
  IF step.kind = "done"
    THEN [task |-> [task EXCEPT !.pc = "done", !.result = step.result], tracker |-> tracker]
    ELSE LET rl == checkRateLimit(tracker, step.endpoint, time)
             call == [method |-> step.method, endpoint |-> step.endpoint,
                      url |-> buildUrl(step.endpoint), cache |-> step.cache,
                      warned |-> rl.warned, invocation |-> task.invocations + 1]
             entered == [task EXCEPT !.invocations = @ + 1, !.stage = step.stage, !.call = call]
         IN IF rl.threw
              THEN Drive(entered,
                         Resume(task.entry, task.input, step.stage, Threw(RateLimitError)),
                         rl.tracker, time)
              ELSE [task |-> [entered EXCEPT !.pc = "fetching", !.fetches = Append(@, call)],
                    tracker |-> rl.tracker]

Invoke(t, entry, input) ==
  /\ tasks[t].pc = "idle"
  /\ LET d == Drive([IdleTask EXCEPT !.entry = entry, !.input = input],
                    Start(entry, input), rateLimitTracker, now)
     IN /\ tasks' = [tasks EXCEPT ![t] = d.task]
        /\ rateLimitTracker' = d.tracker
  /\ UNCHANGED <<now, storage, saveLog>>

\* The fetch of task t settles with `outcome` and the operation runs to its next await
FetchSettles(t, outcome) ==
  /\ tasks[t].pc = "fetching"
  /\ LET rr == requestSettle(outcome)
         task == [tasks[t] EXCEPT !.outcomes = Append(@, outcome)]
     IN IF rr.kind = "refetch"
          THEN /\ Len(task.fetches) < MaxFetches
               /\ tasks' = [tasks EXCEPT ![t] = [task EXCEPT !.fetches = Append(@, task.call)]]
               /\ UNCHANGED rateLimitTracker
          ELSE LET d == Drive(task, Resume(task.entry, task.input, task.stage, rr),
                              rateLimitTracker, now)
               IN /\ tasks' = [tasks EXCEPT ![t] = d.task]
                  /\ rateLimitTracker' = d.tracker
  /\ UNCHANGED <<now, storage, saveLog>>

\* The caller drops the settled promise
Release(t) ==
  /\ tasks[t].pc = "done"
  /\ tasks' = [tasks EXCEPT ![t] = IdleTask]
  /\ UNCHANGED <<now, rateLimitTracker, storage, saveLog>>

\* Time passes
Tick(d) ==
  /\ now + d <= MaxNow
  /\ now' = now + d
  /\ UNCHANGED <<rateLimitTracker, tasks, storage, saveLog>>

Init ==
  /\ now = Epoch
  /\ rateLimitTracker = [e \in {} |-> 0]
  /\ tasks = [t \in TaskIds |-> IdleTask]
  /\ storage = [k \in StorageKeys |-> JNull]
  /\ saveLog = EmptyLog

----------------------------------------------------------------------------
(* The backend: what a fetch can settle with *)

Fails == [net |-> "fail", status |-> 0, body |-> NotJson]
Http(status, body) == [net |-> "ok", status |-> status, body |-> body]

ErrorBody == Obj2("code", JStr("NOT_FOUND"), "message", JStr("not found"))

ErrorOutcomes ==
  {Fails, Http(404, ErrorBody), Http(500, NotJson), Http(500, JNull), Http(200, NotJson)}

GenericOutcomes ==
  ErrorOutcomes \cup
  {Http(200, b) : b \in {JArr(<<JNum(1)>>), JNull,
                         Obj2("success", JBool(FALSE), "data", JNull),
                         Obj2("id", JNum(7), "title", JStr("t"))}}

Obj5(k1, v1, k2, v2, k3, v3, k4, v4, k5, v5) ==
  JObj([k \in {k1, k2, k3, k4, k5} |->
    IF k = k1 THEN v1 ELSE IF k = k2 THEN v2 ELSE IF k = k3 THEN v3 ELSE IF k = k4 THEN v4 ELSE v5])

SearchHit == Obj2("id", JNum(7), "title", JStr("t"))

SearchPayload(results) ==
  Obj5("results", results, "total", JNum(12), "page", JNum(2), "size", JNum(5), "total_pages", JNum(3))

\* The payload of page `page` of `pages`
SearchPayloadAt(page, pages) ==
  Obj5("results", JArr(<<SearchHit>>), "total", JNum(10 * pages), "page", JNum(page),
       "size", JNum(10), "total_pages", JNum(pages))

SearchOutcomes ==
  ErrorOutcomes \cup
  {Http(200, SearchPayloadAt(1, 1)), Http(200, SearchPayloadAt(1, 7)),
   Http(200, SearchPayloadAt(4, 7)), Http(200, SearchPayloadAt(7, 7))} \cup
  {Http(200, b) : b \in {SearchPayload(JArr(<<SearchHit>>)),
                         SearchPayload(JArr(<<JNull>>)),
                         Obj2("total", JNum(1), "page", JNum(1)),
                         Obj2("success", JBool(TRUE), "data", SearchPayload(JArr(<<SearchHit>>))),
                         Obj2("success", JBool(FALSE), "data", JNull),
                         JArr(<<SearchHit>>),
                         JNull}}

PageRow == Obj2("id", JNum(7), "title", JStr("t"))

PagesOutcomes ==
  ErrorOutcomes \cup
  {Http(200, b) : b \in {JArr(<<PageRow>>), JArr(<<>>), JArr(<<JNull>>),
                         Obj2("success", JBool(TRUE), "data", JNull),
                         Obj2("success", JBool(FALSE), "data", JNull)}}

\* A full page with elements, one of them in the sidebar
FullPage ==
  Obj5("id", JNum(7), "title", JStr("t"), "excerpt", JStr("e"),
       "metadata", Obj2("title", JStr("m"), "description", JStr("")),
       "page_elements", JArr(<<Obj2("id", JNum(1), "section", JStr("main")),
                              Obj2("id", JNum(2), "section", JStr("sidebar"))>>))

PageOutcomes ==
  ErrorOutcomes \cup
  {Http(200, b) : b \in {PageRow, FullPage, Obj2("success", JBool(FALSE), "data", JNull),
                         Obj2("success", JBool(TRUE), "data", JNull)}}

ApiSuggestion == Obj2("id", JNum(1), "text", JText(<<"z", "z">>))

SuggestOutcomes ==
  ErrorOutcomes \cup
  {Http(200, b) : b \in {Obj2("success", JBool(TRUE), "data", JArr(<<ApiSuggestion>>)),
                         Obj2("success", JBool(TRUE), "data", JArr(<<JNull>>)),
                         Obj2("success", JBool(TRUE), "data", JArr(<<>>)),
                         JArr(<<ApiSuggestion>>),
                         JNull}}

\* What the backend can answer to a call, by the URL it is sent to
BackendOutcomes(task) ==
  LET call == task.call
      path == call.url.path
  IN IF task.pc # "fetching" THEN {}
     ELSE IF path = <<"search", "sites", siteId>> THEN SearchOutcomes
     ELSE IF path = <<"search", "sites", siteId, "suggest">> THEN SuggestOutcomes
     ELSE IF path = <<"public", siteId, "pages">> /\ call.method = "GET" /\ call.endpoint.params # <<>>
       THEN PagesOutcomes
     ELSE IF Len(path) = 4 /\ path[3] = "pages" THEN PageOutcomes
     ELSE GenericOutcomes

----------------------------------------------------------------------------
(* The client on its own: get, post, put, delete and healthCheck on a few  *)
(* endpoints, two calls in flight at most, time passing between them.      *)

ClientRequests ==
  {[method |-> "GET", endpoint |-> get(<<"pages">>, <<>>)],
   [method |-> "POST", endpoint |-> get(<<"search", "track">>, <<>>)],
   [method |-> "PUT", endpoint |-> get(<<"pages">>, <<>>)],
   [method |-> "DELETE", endpoint |-> get(<<"pages">>, <<>>)]}

Request(t, input) == Invoke(t, "request", input)

HealthCheck(t) == Invoke(t, "healthCheck", Undefined)

ClientNext ==
  \/ \E t \in TaskIds, input \in ClientRequests : Request(t, input)
  \/ \E t \in TaskIds : HealthCheck(t)
  \/ \E t \in TaskIds : \E outcome \in BackendOutcomes(tasks[t]) : FetchSettles(t, outcome)
  \/ \E t \in TaskIds : Release(t)
  \/ \E d \in {500, 1000} : Tick(d)

SpecClient == Init /\ [][ClientNext]_vars

FetchesOf(task, i) == {j \in 1..Len(task.fetches) : task.fetches[j].invocation = i}

\* C1: the rate-limit check never throws or suppresses a request: every invocation
\* of request has issued its fetch, warned or not, no call ends in a rate-limit
\* error, and two calls of the same request that met the same backend behaviour
\* have the same result whatever the tracker held when they started.
C1_RateLimitNeverBlocks ==
  /\ \A t \in TaskIds :
       /\ \A i \in 1..tasks[t].invocations : FetchesOf(tasks[t], i) # {}
       /\ tasks[t].pc = "done" /\ tasks[t].result.kind = "threw"
            => tasks[t].result.error.name # "RateLimitError"
  /\ \A t1, t2 \in TaskIds :
       /\ tasks[t1].pc = "done" /\ tasks[t2].pc = "done"
       /\ tasks[t1].entry = tasks[t2].entry
       /\ tasks[t1].input = tasks[t2].input
       /\ tasks[t1].outcomes = tasks[t2].outcomes
       => tasks[t1].result = tasks[t2].result

\* A call made inside the window of the call before it has fetched and returned,
\* next to the same call made outside the window
C1_Witness ==
  \E t1, t2 \in TaskIds :
    /\ tasks[t1].pc = "done" /\ tasks[t2].pc = "done"
    /\ tasks[t1].entry = "request" /\ tasks[t1].input = tasks[t2].input
    /\ tasks[t1].call.warned /\ ~tasks[t2].call.warned
    /\ tasks[t1].outcomes = tasks[t2].outcomes
    /\ tasks[t1].result.kind = "returned"
    /\ Len(tasks[t1].fetches) = 1

\* C2: the client retries nothing: every invocation of request issues exactly one
\* fetch, whether the fetch succeeds, answers a non-OK status or fails.
C2_ExactlyOneFetch ==
  \A t \in TaskIds : \A i \in 1..tasks[t].invocations :
    Cardinality(FetchesOf(tasks[t], i)) = 1

\* A call whose fetch failed at the network level has ended with that one fetch
C2_Witness ==
  \E t \in TaskIds :
    /\ tasks[t].pc = "done" /\ tasks[t].entry = "request"
    /\ tasks[t].outcomes = <<Fails>>
    /\ tasks[t].result.kind = "threw"
    /\ Len(tasks[t].fetches) = 1

\* C3: request returns a response or throws a CognitorApiError; a non-OK HTTP
\* response throws with statusCode equal to the HTTP status (code UNKNOWN_ERROR
\* when the error body is not JSON); every other failure throws with statusCode 0
\* and code NETWORK_ERROR.
C3_ErrorContract ==
  \A t \in TaskIds :
    tasks[t].pc = "done" /\ tasks[t].entry = "request" =>
      LET outcome == tasks[t].outcomes[1]
          result == tasks[t].result
          nonOk == outcome.net = "ok" /\ outcome.status \notin 200..299
      IN \/ result.kind = "returned" /\ outcome.net = "ok" /\ ~nonOk
         \/ /\ result.kind = "threw"
            /\ result.error.name = "CognitorApiError"
            /\ IF nonOk
                 THEN /\ result.error.statusCode = outcome.status
                      /\ outcome.body.t = "notjson" => result.error.code = JStr("UNKNOWN_ERROR")
                 ELSE /\ result.error.statusCode = 0
                      /\ result.error.code = JStr("NETWORK_ERROR")

----------------------------------------------------------------------------
(* The services, one operation at a time *)

Main == CHOOSE t \in TaskIds : TRUE

Numbers(ns) == {JNum(n) : n \in ns}

SearchQueries ==
  [query : {<<"a">>},
   limit : {Undefined} \cup Numbers({0, 5}),
   offset : {Undefined} \cup Numbers({0, 5, 10}),
   filters : {Undefined, Obj2("category", JText(<<"c">>), "tags", JArr(<< <<"t">>, <<"u">> >>))},
   impl : {"search.ts", "part_001"},
   env : {"development", "production"}]

TermChars == {"e", "E", " ", "z"}

Terms == {<<>>} \cup {<<c>> : c \in TermChars} \cup {<<c, d>> : c \in TermChars, d \in TermChars}

SuggestionQueries == [term : Terms, limit : {JNaN} \cup Numbers({-1, 0, 2, 5})]

PageQueries == [slug : {"about"}, preview : BOOLEAN]

PagesQueries ==
  [limit : {Undefined, JNum(5)}, offset : {Undefined}, status : {JStr("published")},
   search : {Undefined, JText(<<"a">>)}]

Search(query) == Invoke(Main, "search", query)
GetSuggestions(query) == Invoke(Main, "getSuggestions", query)
GetPages(params) == Invoke(Main, "getPages", params)
GetPageBySlug(params) == Invoke(Main, "getPageBySlug", params)
GetPopularSearches(limit) == Invoke(Main, "getPopularSearches", [limit |-> limit])
LoadInitialData == Invoke(Main, "loadInitialData", [stored |-> storage["cognitor-recent-searches"]])

ServicesNext ==
  \/ \E query \in SearchQueries : Search(query)
  \/ \E query \in SuggestionQueries : GetSuggestions(query)
  \/ \E params \in PagesQueries : GetPages(params)
  \/ \E params \in PageQueries : GetPageBySlug(params)
  \/ \E limit \in Numbers({5, 10}) : GetPopularSearches(limit)
  \/ LoadInitialData
  \/ \E outcome \in BackendOutcomes(tasks[Main]) : FetchSettles(Main, outcome)

SpecServices == Init /\ [][ServicesNext]_vars

Done(t, entry) == tasks[t].pc = "done" /\ tasks[t].entry = entry

\* The total of a search response: data.total, or data.pagination.total where the
\* response carries its total there only
TotalOf(data) ==
  IF HasKey(data, "total") THEN Prop(data, "total") ELSE Prop(Prop(data, "pagination"), "total")

\* C4: search never throws: for every backend behaviour it returns a response
\* object, and a response with success = false has no items and total 0.
C4_SearchNeverThrows ==
  \A t \in TaskIds : Done(t, "search") =>
    /\ tasks[t].result.kind = "returned"
    /\ tasks[t].result.value.t = "object"
    /\ ~Truthy(Prop(tasks[t].result.value, "success")) =>
         /\ Prop(Prop(tasks[t].result.value, "data"), "items") = JArr(<<>>)
         /\ TotalOf(Prop(tasks[t].result.value, "data")) = JNum(0)

\* A search whose request and whose fallback both failed has answered success = false
C4_Witness ==
  \E t \in TaskIds :
    /\ Done(t, "search")
    /\ tasks[t].outcomes = <<Http(500, NotJson), Fails>>
    /\ tasks[t].result.kind = "returned"
    /\ Prop(tasks[t].result.value, "success") = JBool(FALSE)

\* The suggest API failed or returned no suggestions
SuggestApiFailed(task) ==
  /\ Len(task.outcomes) = 1
  /\ LET rr == requestSettle(task.outcomes[1])
     IN \/ rr.kind = "threw"
        \/ ~Truthy(Prop(rr.value, "success"))
        \/ Prop(rr.value, "data").t # "array"
        \/ Len(Prop(rr.value, "data").items) = 0

TextsOf(data) == [i \in 1..Len(data.items) |-> Prop(data.items[i], "text").s]

ContainsTerm(text, term) == Includes(ToLowerCase(text), ToLowerCase(term))

StaticTexts == [i \in 1..Len(staticSuggestions) |-> staticSuggestions[i][2]]

\* s is a subsequence of the static list, in its order
FromStaticList(texts) ==
  \E pick \in [1..Len(texts) -> 1..Len(StaticTexts)] :
    /\ \A i \in 1..Len(texts) : texts[i] = StaticTexts[pick[i]]
    /\ \A i, j \in 1..Len(texts) : i < j => pick[i] < pick[j]

SuggestionsBasics(task) ==
  LET value == task.result.value
      data == Prop(value, "data")
      blank == Len(Trim(task.input.term)) = 0
  IN /\ task.result.kind = "returned"
     /\ Prop(value, "success") = JBool(TRUE)
     /\ blank => data = JArr(<<>>) /\ Len(task.fetches) = 0
     /\ ~blank /\ SuggestApiFailed(task) =>
          /\ FromStaticList(TextsOf(data))
          /\ \A i \in 1..Len(data.items) : ContainsTerm(TextsOf(data)[i], task.input.term)

\* C5 as claimed: getSuggestions never throws and returns success = true; when the
\* suggest API fails or returns nothing the data is the static fallback list, every
\* entry containing the term, with at most `limit` entries; a blank term gives
\* empty data without a request.
C5_AtMostLimit ==
  \A t \in TaskIds : Done(t, "getSuggestions") =>
    /\ SuggestionsBasics(tasks[t])
    /\ Len(Trim(tasks[t].input.term)) > 0 /\ SuggestApiFailed(tasks[t]) =>
         LET n == Len(Prop(tasks[t].result.value, "data").items)
         IN IF tasks[t].input.limit.t = "nan" THEN n = 0 ELSE n <= tasks[t].input.limit.n

MatchCount(term) == Cardinality({i \in 1..Len(StaticTexts) : ContainsTerm(StaticTexts[i], term)})

\* C5 amended: as C5, with the bound on the fallback list stated for the limits it
\* holds for: at most `limit` entries when limit >= 0, no entry when limit is NaN,
\* and all matching entries but the last -limit when limit < 0.
C5_FallbackSuggestions ==
  \A t \in TaskIds : Done(t, "getSuggestions") =>
    /\ SuggestionsBasics(tasks[t])
    /\ Len(Trim(tasks[t].input.term)) > 0 /\ SuggestApiFailed(tasks[t]) =>
         LET n == Len(Prop(tasks[t].result.value, "data").items)
             limit == tasks[t].input.limit
             matches == MatchCount(tasks[t].input.term)
         IN CASE limit.t = "nan" -> n = 0
              [] limit.n >= 0 -> n <= limit.n /\ (matches >= limit.n => n = limit.n)
              [] OTHER -> n = (IF matches + limit.n > 0 THEN matches + limit.n ELSE 0)

\* The suggest API failed for the term "E" and limit 2: two static entries, each with an e
C5_Witness ==
  \E t \in TaskIds :
    /\ Done(t, "getSuggestions")
    /\ tasks[t].input.term = <<"E">> /\ tasks[t].input.limit = JNum(2)
    /\ tasks[t].outcomes = <<Fails>>
    /\ Len(Prop(tasks[t].result.value, "data").items) = 2

\* C9: popular searches come from the API: every call of getPopularSearches has
\* issued a request to the backend, and the popular terms SearchInterface shows
\* are the ones that request returned.
C9_PopularFromApi ==
  \A t \in TaskIds :
    /\ Done(t, "getPopularSearches") => Len(tasks[t].fetches) >= 1
    /\ Done(t, "loadInitialData") =>
         /\ Len(tasks[t].fetches) >= 1
         /\ JArr(tasks[t].result.value.popularSearches)
              = Prop(requestSettle(tasks[t].outcomes[1]).value, "data")

UrlIs(call, path) == call.url.base = apiBaseUrl /\ call.url.path = path

\* C10: the outbound requests use the endpoints of the README: the page list at
\* {base}/sites/{siteId}/pages, a page at {base}/sites/{siteId}/pages/{slug},
\* search at {base}/sites/{siteId}/search, suggestions at
\* {base}/sites/{siteId}/search/suggest.
C10_ReadmeEndpoints ==
  \A t \in TaskIds : \A i \in 1..Len(tasks[t].fetches) :
    LET call == tasks[t].fetches[i]
    IN /\ tasks[t].entry = "getPages" => UrlIs(call, <<"sites", siteId, "pages">>)
       /\ tasks[t].entry = "getPageBySlug" =>
            UrlIs(call, <<"sites", siteId, "pages", tasks[t].input.slug>>)
       /\ tasks[t].entry = "search" /\ call.invocation = 1 =>
            UrlIs(call, <<"sites", siteId, "search">>)
       /\ tasks[t].entry = "getSuggestions" =>
            UrlIs(call, <<"sites", siteId, "search", "suggest">>)

----------------------------------------------------------------------------
(* The proxy routes, one request at a time *)

Texts(ts) == {JText(x) : x \in ts}

RouteQueries == {JNull} \cup Texts({<<>>, <<" ">>, <<"\t", " ">>, <<"a">>, <<" ", "a">>, <<"a", " ", "b">>})

SearchRequests ==
  [q : RouteQueries,
   page : {JNull} \cup Texts({<<"1">>, <<"3">>, <<"x">>}),
   limit : {JNull} \cup Texts({<<"0">>, <<"5">>, <<"-", "2">>, <<"2", "x">>}),
   category : {JNull} \cup Texts({<<>>, <<"c">>}),
   tags : {JNull} \cup Texts({<<>>, <<"t", ",", "u">>}),
   impl : {"search.ts", "part_001"},
   env : {"production"}]

SuggestionRequests ==
  [q : RouteQueries \cup Texts({<<"e">>, <<" ", "E">>}),
   limit : {JNull} \cup Texts({<<>>, <<"0">>, <<"2">>, <<"-", "1">>, <<"x">>})]

RouteSearch(req) == Invoke(Main, "GET /api/search", req)
RouteSuggestions(req) == Invoke(Main, "GET /api/search/suggestions", req)

\* Bodies of revalidation requests: with and without a secret, paths and tags
RevalidationBodies ==
  {NotJson, JNull, JArr(<<>>), JObj(<<>>)} \cup
  {Obj3("secret", secret, "paths", paths, "tags", tags) :
     secret \in {Undefined, JNull, JText(<<>>), JText(<<"s", "3">>), JText(<<"x">>)},
     paths \in {Undefined, JArr(<<JText(<<"/", "p">>)>>), JText(<<"/", "p">>)},
     tags \in {Undefined, JArr(<<JText(<<"p">>), JText(<<"q">>)>>)}}

RevalidationRequests ==
  [body : RevalidationBodies, REVALIDATION_SECRET : {Undefined, JText(<<>>), JText(<<"s", "3">>)}]

Revalidate(req) == Invoke(Main, "POST /api/revalidate", req)

ClientSearchQueries ==
  [query : {<<"a">>, <<" ">>},
   limit : {Undefined} \cup Numbers({1, 3, 10}),
   offset : {Undefined} \cup Numbers({0, 2, 3, 6, 10, 30}),
   filters : {Undefined, Obj2("category", JText(<<"c">>), "tags", JArr(<< <<"t">>, <<"u">> >>))},
   impl : {"search.ts", "part_001"},
   env : {"production"}]

ClientSearch(query) == Invoke(Main, "ClientSearchService.search", query)

RoutesNext ==
  \/ \E query \in ClientSearchQueries : ClientSearch(query)
  \/ \E req \in SearchRequests : RouteSearch(req)
  \/ \E req \in SuggestionRequests : RouteSuggestions(req)
  \/ \E req \in RevalidationRequests : Revalidate(req)
  \/ \E outcome \in BackendOutcomes(tasks[Main]) : FetchSettles(Main, outcome)

SpecRoutes == Init /\ [][RoutesNext]_vars

\* The value of parameter key in the query of a call, Undefined when it has none
ParamOf(call, key) ==
  LET params == call.endpoint.params
      hits == {i \in 1..Len(params) : params[i][1] = key}
  IN IF hits = {} THEN Undefined ELSE params[CHOOSE i \in hits : TRUE][2]

\* What the caller sent: the text of a parameter, and its number
SentText(param) == IF param.t = "null" THEN Undefined ELSE param
SentNumber(param) == IF param.t = "null" THEN Undefined ELSE parseInt(param.s)

\* C6 as claimed: the proxy routes pass the parameters through unchanged: the
\* backend call of an accepted request carries the query text, the page number,
\* the page size, the category and the tags the caller sent.
C6_PassThroughUnchanged ==
  \A t \in TaskIds :
    /\ tasks[t].entry = "GET /api/search" /\ Len(tasks[t].fetches) > 0 =>
         LET call == tasks[t].fetches[1]
             req == tasks[t].input
         IN /\ ParamOf(call, "q") = SentText(req.q)
            /\ ParamOf(call, "page") = SentNumber(req.page)
            /\ ParamOf(call, "size") = SentNumber(req.limit)
            /\ ParamOf(call, "category") = SentText(req.category)
            /\ ParamOf(call, "tags") = SentText(req.tags)
    /\ tasks[t].entry = "GET /api/search/suggestions" /\ Len(tasks[t].fetches) > 0 =>
         LET call == tasks[t].fetches[1]
             req == tasks[t].input
         IN /\ ParamOf(call, "q") = SentText(req.q)
            /\ ParamOf(call, "limit") = SentNumber(req.limit)

\* The number a route reads from a parameter: its default when missing or empty
ReadNumber(param, default) ==
  IF param.t = "null" \/ Len(param.s) = 0 THEN JNum(default) ELSE parseInt(param.s)

\* C6 amended: the backend call of an accepted request carries the caller's query
\* text trimmed, the caller's tags, and the caller's category unless it is empty;
\* its size is the caller's limit (10 when missing) unless that is 0 or no number;
\* its page is the caller's page (1 when missing) unless the page is 1 or no number
\* or the limit is 0 or no number, and then no page is sent.  The suggestions
\* route sends the trimmed term and the caller's limit (5 when missing).
C6_PassThrough ==
  \A t \in TaskIds :
    /\ tasks[t].entry = "GET /api/search" /\ Len(tasks[t].fetches) > 0 =>
         LET call == tasks[t].fetches[1]
             req == tasks[t].input
             page == ReadNumber(req.page, 1)
             limit == ReadNumber(req.limit, 10)
             sized == limit.t = "num" /\ limit.n # 0
         IN /\ ParamOf(call, "q") = JText(Trim(req.q.s))
            /\ ParamOf(call, "size") = (IF sized THEN limit ELSE Undefined)
            /\ ParamOf(call, "page") =
                 (IF sized /\ page.t = "num" /\ page.n # 1 THEN page ELSE Undefined)
            /\ ParamOf(call, "category") =
                 (IF req.category.t = "text" /\ Len(req.category.s) > 0 THEN req.category ELSE Undefined)
            /\ ParamOf(call, "tags") = SentText(req.tags)
    /\ tasks[t].entry = "GET /api/search/suggestions" /\ Len(tasks[t].fetches) > 0 =>
         LET call == tasks[t].fetches[1]
             req == tasks[t].input
         IN /\ ParamOf(call, "q") = JText(Trim(req.q.s))
            /\ ParamOf(call, "limit") = ReadNumber(req.limit, 5)

\* A search for page 3 of size 5 with tags has reached the backend as page 3, size 5
C6_Witness ==
  \E t \in TaskIds :
    /\ tasks[t].entry = "GET /api/search" /\ Len(tasks[t].fetches) > 0
    /\ tasks[t].input.q = JText(<<" ", "a">>)
    /\ tasks[t].input.page = JText(<<"3">>) /\ tasks[t].input.limit = JText(<<"5">>)
    /\ tasks[t].input.tags = JText(<<"t", ",", "u">>)
    /\ ParamOf(tasks[t].fetches[1], "page") = JNum(3)
    /\ ParamOf(tasks[t].fetches[1], "size") = JNum(5)

Blank(q) == q.t = "null" \/ \A i \in 1..Len(q.s) : q.s[i] \in {" ", "\t"}

\* C7: in both routes a missing, empty or whitespace-only q is answered with HTTP
\* 400 and 'Query parameter is required' without the service being invoked (no
\* request reaches the backend); any other request ends in a response, 200 or
\* 500, never in an exception.
C7_QueryRequired ==
  \A t \in TaskIds :
    tasks[t].entry \in {"GET /api/search", "GET /api/search/suggestions"} =>
      /\ Blank(tasks[t].input.q) =>
           /\ tasks[t].pc = "done"
           /\ tasks[t].invocations = 0
           /\ tasks[t].result.kind = "returned"
           /\ tasks[t].result.value.status = 400
           /\ Prop(tasks[t].result.value.body, "error") = JStr("Query parameter is required")
      /\ ~Blank(tasks[t].input.q) /\ tasks[t].pc = "done" =>
           /\ tasks[t].result.kind = "returned"
           /\ tasks[t].result.value.status \in {200, 500}

\* A whitespace-only q has been answered 400 without a request
C7_Witness ==
  \E t \in TaskIds :
    /\ Done(t, "GET /api/search")
    /\ tasks[t].input.q = JText(<<"\t", " ">>)
    /\ tasks[t].result.value.status = 400
    /\ tasks[t].invocations = 0

----------------------------------------------------------------------------
(* The recent searches of a browser session.  The i-th search term is the  *)
(* text of i letters; a session saves a term it has not saved yet, or      *)
(* saves one of its earlier terms again.                                   *)

Services == {"SearchService", "ClientSearchService"}

TermOf(i) == [k \in 1..i |-> "a"]

\* The terms a session can save next
NextTerms ==
  LET unsaved == {i \in 1..NTerms : saveLog.lastSave[i] = 0}
      fresh == IF unsaved = {} THEN {} ELSE {CHOOSE i \in unsaved : \A j \in unsaved : i <= j}
      again == IF saveLog.resaves < MaxResaves
                 THEN {i \in 1..NTerms : saveLog.lastSave[i] > 0} ELSE {}
  IN fresh \cup again

SaveRecentSearch(service, i) ==
  /\ saveLog.service \in {"none", service}
  /\ saveLog.saves < MaxSaves
  /\ i \in NextTerms
  /\ storage' = [storage EXCEPT ![StorageKey(service)] =
                   IF service = "SearchService" THEN saveRecentSearch(@, TermOf(i))
                   ELSE clientSaveRecentSearch(@, TermOf(i))]
  /\ saveLog' = [service |-> service,
                 lastSave |-> [saveLog.lastSave EXCEPT ![i] = saveLog.saves + 1],
                 saves |-> saveLog.saves + 1,
                 resaves |-> saveLog.resaves + (IF saveLog.lastSave[i] > 0 THEN 1 ELSE 0),
                 cleared |-> FALSE]
  /\ UNCHANGED <<now, rateLimitTracker, tasks>>

ClearRecentSearches(service) ==
  /\ saveLog.service \in {"none", service}
  /\ storage' = [storage EXCEPT ![StorageKey(service)] = clearRecentSearches]
  /\ saveLog' = [EmptyLog EXCEPT !.cleared = TRUE]
  /\ UNCHANGED <<now, rateLimitTracker, tasks>>

RecentNext ==
  \/ \E service \in Services, i \in 1..NTerms : SaveRecentSearch(service, i)
  \/ \E service \in Services : ClearRecentSearches(service)

SpecRecent == Init /\ [][RecentNext]_vars

\* The index of the search term a stored entry holds
IndexOf(term) == Len(term)

\* The list a service reads back from storage
ReadBack(service) ==
  IF service = "SearchService"
    THEN getRecentSearches(storage[StorageKey(service)], JNum(maxRecentSearches))
    ELSE clientGetRecentSearches(storage[StorageKey(service)])

\* C8: the stored list of recent searches is a most-recently-used list: it has no
\* duplicate term, at most 10 entries, the most recently saved term at index 0 and
\* the remaining terms in the order of their last save, and it holds as many of the
\* terms saved as fit; after clearRecentSearches the list read back is empty.
C8_MostRecentlyUsedList ==
  \A service \in Services :
    LET item == storage[StorageKey(service)]
        list == IF item.t = "null" THEN <<>> ELSE item.items
        last(k) == saveLog.lastSave[IndexOf(list[k])]
        saved == {i \in 1..NTerms : saveLog.lastSave[i] > 0}
    IN /\ Len(list) <= 10
       /\ \A j, k \in 1..Len(list) : j # k => list[j] # list[k]
       /\ saveLog.service = service =>
            /\ Len(list) = (IF Cardinality(saved) < 10 THEN Cardinality(saved) ELSE 10)
            /\ last(1) = saveLog.saves
            /\ \A j, k \in 1..Len(list) : j < k => last(j) > last(k)
            /\ \A i \in saved : (\A k \in 1..Len(list) : list[k] # TermOf(i)) =>
                 \A k \in 1..Len(list) : saveLog.lastSave[i] < last(k)
       /\ saveLog.service # service => list = <<>>
       /\ saveLog.cleared => ReadBack(service) = <<>>

\* Ten entries are stored after an eleventh term pushed one out and a term was saved again
C8_Witness ==
  \E service \in Services :
    /\ saveLog.service = service
    /\ storage[StorageKey(service)].t = "array"
    /\ Len(storage[StorageKey(service)].items) = 10
    /\ saveLog.resaves > 0
    /\ \E i \in 1..NTerms :
         /\ saveLog.lastSave[i] > 0
         /\ \A k \in 1..10 : storage[StorageKey(service)].items[k] # TermOf(i)

----------------------------------------------------------------------------
(* The pages a visitor sees: /search renders SearchResults *)

SearchResultsProps ==
  [query : {<<>>, <<" ">>, <<"a">>},
   page : {JNum(1), JNum(2), JNum(4), JNaN},
   category : {Undefined, JText(<<"c">>)},
   tags : {Undefined, JArr(<<<<"t">>, <<"u">>>>)},
   impl : {"search.ts", "part_001"},
   env : {"production"}]

RenderSearchResults(props) == Invoke(Main, "SearchResults", props)

Slugs == {"about", "contact"}

GenerateMetadata(slug) == Invoke(Main, "generateMetadata", [slug |-> slug])
RenderDynamicPage(slug) == Invoke(Main, "DynamicPage", [slug |-> slug])

PagesNext ==
  \/ \E props \in SearchResultsProps : RenderSearchResults(props)
  \/ \E slug \in Slugs : GenerateMetadata(slug)
  \/ \E slug \in Slugs : RenderDynamicPage(slug)
  \/ \E outcome \in BackendOutcomes(tasks[Main]) : FetchSettles(Main, outcome)

SpecPages == Init /\ [][PagesNext]_vars

\* C11: whenever SearchResults has rendered a successful search response with
\* totalPages > 1, the Previous control is enabled exactly when the current page is
\* greater than 1 and the Next control is enabled exactly when the current page is
\* less than totalPages.
C11_PaginationControls ==
  \A t \in TaskIds :
    Done(t, "SearchResults") /\ tasks[t].result.value.view = "SearchResults" =>
      LET pagination == Prop(Prop(tasks[t].result.value.response, "data"), "pagination")
          page == Prop(pagination, "page")
          totalPages == Prop(pagination, "totalPages")
          shown == tasks[t].result.value.pagination
      IN JLess(JNum(1), totalPages) =>
           /\ shown # JNull
           /\ ~shown.previousDisabled <=> JLess(JNum(1), page)
           /\ ~shown.nextDisabled <=> JLess(page, totalPages)

----------------------------------------------------------------------------
(* The theme loader (theme-loader, client.ts:318): loadTheme fetches the   *)
(* theme files itself, without the API client.                             *)

requiredColors ==
  <<"primary", "secondary", "background", "foreground", "muted", "accent", "destructive",
    "border", "input", "ring">>

Range(seq) == {seq[i] : i \in 1..Len(seq)}

\* An object with the given keys, each holding value
Filled(keys, value) == JObj([k \in keys |-> value])

getBuiltInDefaultTheme ==
  Obj5("id", JStr("default"), "name", JStr("Default Theme"),
       "colors", Filled(Range(requiredColors), JStr("hsl(...)")),
       "typography",
         JObj([k \in {"fontFamily", "fontSize", "fontWeight", "lineHeight"} |->
           CASE k = "fontFamily" -> JStr("Inter, sans-serif")
             [] k = "fontSize" -> Filled({"xs", "sm", "base", "lg", "xl", "2xl", "3xl", "4xl"}, JStr("rem"))
             [] k = "fontWeight" -> Filled({"normal", "medium", "semibold", "bold"}, JStr("400"))
             [] OTHER -> Filled({"tight", "normal", "relaxed"}, JStr("1.5"))]),
       "spacing", Filled({"xs", "sm", "md", "lg", "xl", "2xl", "3xl", "4xl"}, JStr("rem")))

\* A validation that looks at id, name and colors only
validateThemeShallow(themeData) ==
  IF ~CanRead(themeData) THEN JNull
  ELSE IF \/ ~Truthy(Prop(themeData, "id")) \/ ~Truthy(Prop(themeData, "name"))
          \/ ~Truthy(Prop(themeData, "colors"))
    THEN JNull
  ELSE themeData

\* validateTheme(themeData): the theme, or null for one that lacks a required part
validateTheme(themeData) ==
  IF ~CanRead(themeData) THEN JNull
  ELSE IF \/ ~Truthy(Prop(themeData, "id")) \/ ~Truthy(Prop(themeData, "name"))
          \/ ~Truthy(Prop(themeData, "colors"))
    THEN JNull
  ELSE IF \E i \in 1..Len(requiredColors) :
            ~Truthy(Prop(Prop(themeData, "colors"), requiredColors[i]))
    THEN JNull
  ELSE themeData

\* response.ok
ResponseOk(outcome) == outcome.status \in 200..299

\* loadSiteTheme after its fetch settled
loadSiteTheme(outcome) ==
  IF outcome.net = "fail" THEN JNull
  ELSE IF ResponseOk(outcome)
    THEN IF outcome.body.t = "notjson" THEN JNull ELSE validateTheme(outcome.body)
  ELSE JNull

\* A fallback loader that answers an invalid theme file with the built-in theme
loadDefaultThemeLenient(outcome) ==
  IF outcome.net = "fail" THEN getBuiltInDefaultTheme
  ELSE IF ResponseOk(outcome) /\ outcome.body.t # "notjson" /\ validateTheme(outcome.body) # JNull
    THEN validateTheme(outcome.body)
  ELSE getBuiltInDefaultTheme

\* loadDefaultTheme after its fetch settled
loadDefaultTheme(outcome) ==
  IF outcome.net = "fail" THEN getBuiltInDefaultTheme
  ELSE IF ResponseOk(outcome)
    THEN IF outcome.body.t = "notjson" THEN getBuiltInDefaultTheme ELSE validateTheme(outcome.body)
  ELSE getBuiltInDefaultTheme

\* fetch(`/themes/${name}.json`)
ThemeFetch(name) ==
  [method |-> "GET", url |-> [base |-> "", path |-> <<"themes", name>>, params |-> <<>>],
   file |-> "json"]

\* loadTheme(siteId, fallbackTheme) up to its first fetch
LoadTheme(t, site, fallbackTheme) ==
  /\ tasks[t].pc = "idle"
  /\ tasks' = [tasks EXCEPT ![t] =
       [IdleTask EXCEPT !.pc = "fetching", !.entry = "loadTheme",
                        !.input = [siteId |-> site, fallbackTheme |-> fallbackTheme],
                        !.stage = 1, !.call = ThemeFetch(site),
                        !.fetches = <<ThemeFetch(site)>>]]
  /\ UNCHANGED <<now, rateLimitTracker, storage, saveLog>>

\* loadTheme after the fetch of loadSiteTheme (stage 1) or loadDefaultTheme (stage 2).
\* Neither helper lets an exception out, so the catch block of loadTheme is never entered.
ThemeFetchSettles(t, outcome) ==
  /\ tasks[t].pc = "fetching" /\ tasks[t].entry = "loadTheme"
  /\ LET task == [tasks[t] EXCEPT !.outcomes = Append(@, outcome)]
         input == task.input
         theme == loadSiteTheme(outcome)
     IN tasks' = [tasks EXCEPT ![t] =
          IF task.stage = 1
            THEN IF Truthy(theme) THEN [task EXCEPT !.pc = "done", !.result = Returned(theme)]
                 ELSE IF input.fallbackTheme # input.siteId
                   THEN [task EXCEPT !.stage = 2, !.call = ThemeFetch(input.fallbackTheme),
                                     !.fetches = Append(@, ThemeFetch(input.fallbackTheme))]
                 ELSE [task EXCEPT !.pc = "done", !.result = Returned(JNull)]
            ELSE [task EXCEPT !.pc = "done", !.result = Returned(loadDefaultTheme(outcome))]]
  /\ UNCHANGED <<now, rateLimitTracker, storage, saveLog>>

\* Theme files: complete ones, and ones that lack a part
ThemeFile(id, name, colors) == Obj3("id", id, "name", name, "colors", colors)

AllColors == Filled(Range(requiredColors), JStr("hsl(1 2% 3%)"))

ThemeFiles ==
  {ThemeFile(JStr("site-theme"), JStr("Site Theme"), AllColors),
   ThemeFile(JStr(""), JStr("Site Theme"), AllColors),
   ThemeFile(JStr("site-theme"), JNull, AllColors),
   Obj2("id", JStr("site-theme"), "name", JStr("Site Theme")),
   ThemeFile(JStr("site-theme"), JStr("Site Theme"), JStr("blue")),
   ThemeFile(JStr("site-theme"), JStr("Site Theme"),
             Filled(Range(requiredColors) \ {"ring"}, JStr("hsl(1 2% 3%)"))),
   ThemeFile(JStr("site-theme"), JStr("Site Theme"),
             JObj([c \in Range(requiredColors) |->
                     IF c = "input" THEN JStr("") ELSE JStr("hsl(1 2% 3%)")])),
   JNull,
   JArr(<<>>)}

ThemeOutcomes ==
  {Fails, Http(404, NotJson), Http(500, ErrorBody), Http(200, NotJson)} \cup
  {Http(200, file) : file \in ThemeFiles}

ThemeNames == {"default", "acme", "site-theme"}

ThemesNext ==
  \/ \E site \in ThemeNames, fallbackTheme \in ThemeNames : LoadTheme(Main, site, fallbackTheme)
  \/ \E outcome \in ThemeOutcomes : ThemeFetchSettles(Main, outcome)

SpecThemes == Init /\ [][ThemesNext]_vars

\* A fetch that did not deliver a parseable theme file
FileUnavailable(outcome) ==
  outcome.net = "fail" \/ outcome.status \notin 200..299 \/ outcome.body.t = "notjson"

\* A string with at least one character
NonEmptyString(v) == v.t = "str" /\ v.s # ""

\* A theme with id, name and the ten colors
CompleteTheme(theme) ==
  /\ theme.t = "object"
  /\ {"id", "name", "colors"} \subseteq DOMAIN theme.f
  /\ NonEmptyString(theme.f["id"]) /\ NonEmptyString(theme.f["name"])
  /\ theme.f["colors"].t = "object"
  /\ \A i \in 1..Len(requiredColors) :
       /\ requiredColors[i] \in DOMAIN theme.f["colors"].f
       /\ NonEmptyString(theme.f["colors"].f[requiredColors[i]])

\* The site theme file cannot be used: missing, failed to load or invalid
SiteThemeUnavailable(outcome) == FileUnavailable(outcome) \/ ~CompleteTheme(outcome.body)

\* C12: loadTheme never throws and resolves themes in a fixed order: its first fetch
\* is /themes/{siteId}.json; the fallback theme file is fetched, as second and last
\* fetch, exactly when the site theme is missing, invalid or failed to load and
\* fallbackTheme differs from siteId; the built-in default theme is returned only
\* when the fallback theme file was fetched and is not available; when fallbackTheme
\* equals siteId and the site theme is unavailable the result is null.
C12_ThemeResolutionOrder ==
  \A t \in TaskIds :
    tasks[t].entry = "loadTheme" =>
      LET task == tasks[t]
          site == task.input.siteId
          fallbackTheme == task.input.fallbackTheme
      IN /\ task.pc = "done" => task.result.kind = "returned"
         /\ task.fetches[1] = ThemeFetch(site)
         /\ Len(task.fetches) <= 2
         /\ Len(task.outcomes) >= 1 =>
              (Len(task.fetches) = 2 <=>
                 SiteThemeUnavailable(task.outcomes[1]) /\ fallbackTheme # site)
         /\ Len(task.fetches) = 2 => task.fetches[2] = ThemeFetch(fallbackTheme)
         /\ task.pc = "done" /\ task.result.value = getBuiltInDefaultTheme =>
              Len(task.outcomes) = 2 /\ FileUnavailable(task.outcomes[2])
         /\ task.pc = "done" /\ Len(task.outcomes) = 2 /\ FileUnavailable(task.outcomes[2]) =>
              task.result.value = getBuiltInDefaultTheme
         /\ Len(task.outcomes) >= 1 /\ fallbackTheme = site
              /\ SiteThemeUnavailable(task.outcomes[1]) =>
              task.pc = "done" /\ task.result.value = JNull

\* The built-in theme has been returned after the site theme file was invalid and the
\* fallback theme file was missing
C12_Witness ==
  \E t \in TaskIds :
    /\ Done(t, "loadTheme")
    /\ Len(tasks[t].outcomes) = 2
    /\ tasks[t].outcomes[1].status = 200 /\ tasks[t].outcomes[1].body.t = "object"
    /\ tasks[t].outcomes[2] = Http(404, NotJson)
    /\ tasks[t].result.value = getBuiltInDefaultTheme

\* C13: every non-null theme loadTheme returns, from a theme file or built in, has a
\* non-empty id, a non-empty name and a non-empty value for each of the ten required
\* colors; a theme file that lacks one of these is never returned.
C13_ReturnedThemeComplete ==
  \A t \in TaskIds :
    Done(t, "loadTheme") =>
      /\ tasks[t].result.kind = "returned"
      /\ tasks[t].result.value # JNull =>
           /\ CompleteTheme(tasks[t].result.value)
           /\ \A i \in 1..Len(tasks[t].outcomes) :
                LET outcome == tasks[t].outcomes[i]
                IN ~FileUnavailable(outcome) /\ ~CompleteTheme(outcome.body) =>
                     tasks[t].result.value # outcome.body

\* A theme file has been returned as the theme after another file was rejected
C13_Witness ==
  \E t \in TaskIds :
    /\ Done(t, "loadTheme")
    /\ Len(tasks[t].outcomes) = 2
    /\ ~FileUnavailable(tasks[t].outcomes[1]) /\ ~CompleteTheme(tasks[t].outcomes[1].body)
    /\ tasks[t].result.value = tasks[t].outcomes[2].body
    /\ CompleteTheme(tasks[t].result.value)

----------------------------------------------------------------------------
(* The revalidation endpoint *)

\* The body carries the secret the environment configures
CarriesSecret(req) ==
  /\ req.REVALIDATION_SECRET.t = "text"
  /\ Prop(req.body, "secret") = req.REVALIDATION_SECRET

\* C14: a POST triggers revalidatePath or revalidateTag only when its body carries a
\* secret equal to the configured REVALIDATION_SECRET; a POST whose body has no
\* secret or a different secret gets HTTP 401 and revalidates nothing, also when
\* REVALIDATION_SECRET is not set.
C14_SecretVerified ==
  \A t \in TaskIds :
    Done(t, "POST /api/revalidate") =>
      LET req == tasks[t].input
          done == tasks[t].result.value
      IN /\ done.revalidated # <<>> => CarriesSecret(req)
         /\ req.body.t = "object" /\ ~CarriesSecret(req) =>
              done.response.status = 401 /\ done.revalidated = <<>>

----------------------------------------------------------------------------
(* PagesService.getPageBySlug *)

\* The first answer is unsuccessful or has no items
NoItems(response) ==
  \/ ~Truthy(Prop(response, "success"))
  \/ ~Truthy(Prop(Prop(response, "data"), "items"))
  \/ Prop(Prop(response, "data"), "items") = JArr(<<>>)

\* What request makes of the i-th answer of the backend
AnswerOf(task, i) == requestSettle(task.outcomes[i])

\* C15: getPageBySlug first requests the page list filtered by the slug, and
\* requests pages/{id} only afterwards and only with the id of the first item of
\* that list; when the first response is unsuccessful or has no items it returns
\* success = false with message 'Page not found' without a second request; with
\* preview set both requests use cache 'no-store'; an error thrown by either
\* request reaches the caller.
C15_TwoStepProtocol ==
  \A t \in TaskIds :
    tasks[t].entry = "getPageBySlug" =>
      LET task == tasks[t]
          params == task.input
          first == AnswerOf(task, 1)
          second == AnswerOf(task, 2)
      IN /\ Len(task.fetches) \in 1..2
         /\ task.fetches[1].endpoint.path = <<"pages">>
         /\ ParamOf(task.fetches[1], "slug") = JStr(params.slug)
         /\ Len(task.fetches) = 2 =>
              /\ first.kind = "returned"
              /\ Prop(Prop(first.value, "data"), "items").t = "array"
              /\ task.fetches[2].endpoint.path =
                   <<"pages", IdSegment(Prop(Prop(Prop(first.value, "data"), "items").items[1], "id"))>>
         /\ Len(task.outcomes) >= 1 /\ first.kind = "returned" /\ NoItems(first.value) =>
              /\ task.pc = "done" /\ Len(task.fetches) = 1
              /\ task.result = Returned(PageNotFound)
         /\ params.preview => \A i \in 1..Len(task.fetches) : task.fetches[i].cache = "no-store"
         /\ Len(task.outcomes) >= 1 /\ first.kind = "threw" =>
              task.pc = "done" /\ task.result = first
         /\ Len(task.outcomes) = 2 /\ second.kind = "threw" =>
              task.pc = "done" /\ task.result = second

----------------------------------------------------------------------------
(* The dynamic page route *)

\* What getPageBySlug gave the route: replayed from the answers of the backend
RECURSIVE PageResult(_, _, _)
PageResult(task, i, step) ==
  IF step.kind = "done" THEN step.result
  ELSE PageResult(task, i + 1,
                  getPageBySlugResume(slugParams(task.input), step.stage, AnswerOf(task, i)))

\* The page could not be loaded
PageUnavailable(result) ==
  \/ result.kind = "threw"
  \/ ~Truthy(Prop(result.value, "success"))
  \/ ~Truthy(Prop(result.value, "data"))

\* C16: whenever the page of a slug cannot be loaded (getPageBySlug returns success
\* = false, returns no data, or throws), DynamicPage ends in notFound() and
\* generateMetadata returns the 'Page Not Found' metadata; no other exception
\* leaves either of them.
C16_PageNotFound ==
  \A t \in TaskIds :
    /\ Done(t, "DynamicPage") =>
         LET result == PageResult(tasks[t], 1, getPageBySlugStart(slugParams(tasks[t].input)))
         IN /\ PageUnavailable(result) => tasks[t].result = NotFound
            /\ tasks[t].result.kind = "threw" => tasks[t].result = NotFound
    /\ tasks[t].pc = "done" /\ tasks[t].entry = "generateMetadata" =>
         LET result == PageResult(tasks[t], 1, getPageBySlugStart(slugParams(tasks[t].input)))
         IN /\ tasks[t].result.kind = "returned"
            /\ PageUnavailable(result) => tasks[t].result.value = PageNotFoundMetadata

\* DynamicPage has ended in notFound() after getPageBySlug threw on its second request
C16_Witness ==
  \E t \in TaskIds :
    /\ tasks[t].pc = "done" /\ tasks[t].entry = "DynamicPage"
    /\ Len(tasks[t].outcomes) = 2
    /\ AnswerOf(tasks[t], 2).kind = "threw"
    /\ tasks[t].result = NotFound

----------------------------------------------------------------------------
(* The rate-limit tracker *)

\* The endpoints task t has sent a request to in this step
Requested(t) ==
  IF Len(tasks'[t].fetches) > Len(tasks[t].fetches) /\ tasks'[t].entry # "loadTheme"
    THEN {tasks'[t].fetches[Len(tasks'[t].fetches)].endpoint}
    ELSE {}

\* C17: the stored timestamp of an endpoint is overwritten only by a request to that
\* endpoint arriving at least 1000 ms after the stored value, and then with the
\* time of the request, so two successive timestamps of an endpoint differ by at
\* least 1000 ms; a request arriving less than 1000 ms after the stored value leaves
\* the tracker unchanged; a request never changes the timestamp of another endpoint.
C17_WindowPerEndpoint ==
  [][/\ \A e \in DOMAIN rateLimitTracker' :
          TrackerGet(rateLimitTracker', e) # TrackerGet(rateLimitTracker, e) =>
            /\ \E t \in TaskIds : e \in Requested(t)
            /\ rateLimitTracker'[e] = now
            /\ rateLimitTracker'[e] - TrackerGet(rateLimitTracker, e) >= 1000
     /\ DOMAIN rateLimitTracker \subseteq DOMAIN rateLimitTracker'
     /\ \A t \in TaskIds : \A e \in Requested(t) :
          IF now - TrackerGet(rateLimitTracker, e) < 1000
            THEN rateLimitTracker' = rateLimitTracker
            ELSE rateLimitTracker' = TrackerSet(rateLimitTracker, e, now)]_vars

\* The timestamp of an endpoint has been overwritten a full window after the first
\* request, after a request inside the window had left it alone
C17_Witness ==
  \E t \in TaskIds :
    /\ tasks[t].entry = "request" /\ tasks[t].pc # "idle"
    /\ tasks[t].call.warned
    /\ tasks[t].call.endpoint \in DOMAIN rateLimitTracker
    /\ rateLimitTracker[tasks[t].call.endpoint] >= Epoch + 1000
    /\ Cardinality(DOMAIN rateLimitTracker) = 2

----------------------------------------------------------------------------
(* The response transformation of request *)

\* C18: request normalises every OK payload into one of three shapes: a JSON array
\* becomes success = true with data.items the array, total = limit = its length,
\* page = 1, totalPages = 1 and hasNext = hasPrev = false; an object that has a
\* 'data' key is returned unchanged; any other value v becomes success = true with
\* data = v (and the message 'Success').
C18_ThreeShapes ==
  \A t \in TaskIds :
    Done(t, "request") /\ ResponseOk(tasks[t].outcomes[1])
      /\ tasks[t].outcomes[1].body.t # "notjson" =>
      LET rawData == tasks[t].outcomes[1].body
          data == tasks[t].result.value
          pagination == Prop(Prop(data, "data"), "pagination")
      IN /\ tasks[t].result.kind = "returned"
         /\ rawData.t = "array" =>
              /\ Prop(data, "success") = JBool(TRUE)
              /\ Prop(Prop(data, "data"), "items") = rawData
              /\ Prop(Prop(data, "data"), "total") = JNum(Len(rawData.items))
              /\ Prop(Prop(data, "data"), "limit") = JNum(Len(rawData.items))
              /\ Prop(Prop(data, "data"), "page") = JNum(1)
              /\ Prop(pagination, "totalPages") = JNum(1)
              /\ Prop(pagination, "hasNext") = JBool(FALSE)
              /\ Prop(pagination, "hasPrev") = JBool(FALSE)
         /\ rawData.t = "object" /\ "data" \in DOMAIN rawData.f => data = rawData
         /\ rawData.t # "array" /\ ~(rawData.t = "object" /\ "data" \in DOMAIN rawData.f) =>
              /\ DOMAIN data.f = {"success", "data", "message"}
              /\ Prop(data, "success") = JBool(TRUE)
              /\ Prop(data, "data") = rawData

\* Two requests have returned, one a wrapped array and one a response passed through
C18_Witness ==
  \E t1, t2 \in TaskIds :
    /\ Done(t1, "request") /\ Done(t2, "request")
    /\ tasks[t1].outcomes[1] = Http(200, JArr(<<JNum(1)>>))
    /\ tasks[t1].result.kind = "returned"
    /\ Prop(tasks[t2].outcomes[1].body, "data") = JNull
    /\ tasks[t2].outcomes[1].status = 200
    /\ tasks[t2].result.kind = "returned"
    /\ Prop(tasks[t2].result.value, "success") = JBool(FALSE)

----------------------------------------------------------------------------
(* buildUrl, applied by request to the endpoints the client is called with. *)
(* An endpoint with a leading slash has the empty text as first segment.    *)

EndpointPaths ==
  {<<"pages">>, <<"pages", "7">>, <<"health">>, <<"searches", "x">>,
   <<"search">>, <<"search", "track">>, <<"search", "sites">>,
   <<"search", "sites", "default">>, <<"search", "sites", "other", "suggest">>,
   <<"public">>, <<"public", "default", "pages">>, <<"public", "">>}

Endpoints ==
  {get(path, <<>>) : path \in EndpointPaths} \cup
  {get(<<"">> \o path, <<>>) : path \in EndpointPaths} \cup
  {get(<<"pages">>, << <<"slug", JStr("about")>> >>),
   get(<<"search", "sites", "default">>, << <<"q", JText(<<"a">>)>> >>)}

BuildUrl(t, endpoint) == Invoke(t, "request", [method |-> "GET", endpoint |-> endpoint])

UrlsNext ==
  \/ \E t \in TaskIds, endpoint \in Endpoints : BuildUrl(t, endpoint)
  \/ \E t \in TaskIds : \E outcome \in {Fails, Http(200, JArr(<<>>)), Http(404, ErrorBody)} :
       FetchSettles(t, outcome)

SpecUrls == Init /\ [][UrlsNext]_vars

\* The endpoint with one leading slash put in front
Slashed(endpoint) == [endpoint EXCEPT !.path = <<"">> \o @]

\* prefix followed by at least one more segment: the text starts with 'prefix/'
Under(path, prefix) == Len(path) > Len(prefix) /\ SubSeq(path, 1, Len(prefix)) = prefix

\* The one pattern the claim gives an endpoint without leading slash
PatternOf(path) ==
  IF Under(path, <<"search", "sites">>) \/ Under(path, <<"public">>) THEN path
  ELSE IF Under(path, <<"search">>)
    THEN <<"search", "sites", siteId>> \o SubSeq(path, 2, Len(path))
  ELSE <<"public", siteId>> \o path

\* C19: buildUrl is insensitive to one leading slash, and maps each endpoint to one
\* pattern: 'search/sites/...' and 'public/...' are appended to the base URL as
\* given, any other 'search/x' becomes {base}/search/sites/{siteId}/x, every other
\* endpoint becomes {base}/public/{siteId}/{endpoint}; every URL starts with the
\* base URL and keeps the query of the endpoint.
C19_BuildUrlPatterns ==
  /\ \A t \in TaskIds :
       tasks[t].entry = "request" /\ tasks[t].pc # "idle" =>
         LET endpoint == tasks[t].call.endpoint
             url == tasks[t].call.url
             path == IF endpoint.path[1] = "" /\ Len(endpoint.path) > 1
                       THEN Tail(endpoint.path) ELSE endpoint.path
         IN /\ url.base = apiBaseUrl
            /\ url.path = PatternOf(path)
            /\ url.params = endpoint.params
  /\ \A t1, t2 \in TaskIds :
       /\ tasks[t1].entry = "request" /\ tasks[t2].entry = "request"
       /\ tasks[t1].pc # "idle" /\ tasks[t2].pc # "idle"
       /\ tasks[t1].call.endpoint = Slashed(tasks[t2].call.endpoint)
       /\ tasks[t2].call.endpoint.path[1] # ""
       => tasks[t1].call.url = tasks[t2].call.url

\* 'search/track' and '/search/track' have both been sent to the site's search URL
C19_Witness ==
  \E t1, t2 \in TaskIds :
    /\ tasks[t1].entry = "request" /\ tasks[t2].entry = "request"
    /\ tasks[t1].pc # "idle" /\ tasks[t2].pc # "idle"
    /\ tasks[t1].call.endpoint.path = <<"", "search", "track">>
    /\ tasks[t2].call.endpoint.path = <<"search", "track">>
    /\ tasks[t1].call.url.path = <<"search", "sites", siteId, "track">>
    /\ tasks[t2].call.url = tasks[t1].call.url

----------------------------------------------------------------------------
(* Offsets and pages from the browser to the backend *)

\* C20: for every query of ClientSearchService.search with limit >= 1 and offset a
\* non-negative multiple of limit, the backend request carries size = limit and,
\* when offset > 0, page = offset / limit + 1; when offset = 0 no page parameter is
\* sent at any hop, neither to /api/search nor to the backend.
C20_OffsetPageRoundTrip ==
  \A t \in TaskIds :
    tasks[t].entry = "ClientSearchService.search" /\ Len(tasks[t].fetches) > 0 =>
      LET query == tasks[t].input
          limit == query.limit
          offset == IF query.offset.t = "undefined" THEN JNum(0) ELSE query.offset
          call == tasks[t].fetches[1]
      IN limit.t = "num" /\ limit.n >= 1 /\ offset.n >= 0 /\ offset.n % limit.n = 0 =>
           /\ ParamOf(call, "size") = limit
           /\ offset.n > 0 => ParamOf(call, "page") = JNum(offset.n \div limit.n + 1)
           /\ offset.n = 0 =>
                /\ ParamOf(call, "page") = Undefined
                /\ clientSearchRequest(query).page = JNull

\* A query for offset 6 with limit 3 has reached the backend as page 3 of size 3
C20_Witness ==
  \E t \in TaskIds :
    /\ tasks[t].entry = "ClientSearchService.search" /\ Len(tasks[t].fetches) > 0
    /\ tasks[t].input.limit = JNum(3) /\ tasks[t].input.offset = JNum(6)
    /\ ParamOf(tasks[t].fetches[1], "page") = JNum(3)
    /\ ParamOf(tasks[t].fetches[1], "size") = JNum(3)

----------------------------------------------------------------------------
(* Content references: a content block rendered as a list, a grid or a     *)
(* teaser, and the backend answering its requests.                         *)

Titled(i) == Obj2("id", JNum(i), "title", JStr("t"))

\* An array of n objects that are already resolved
Resolved(n) == JArr([i \in 1..n |-> Titled(i)])

\* n search hits or page rows
Rows(n) == JArr([i \in 1..n |-> Obj2("id", JNum(i), "title", JStr("t"))])

ReferenceFields == {"references", "items", "related_content", "search_term", "category"}

\* The data of a content block: the fields that are given
DataOf(references, items, related, term, category) ==
  LET full == [k \in ReferenceFields |->
                 CASE k = "references" -> references
                   [] k = "items" -> items
                   [] k = "related_content" -> related
                   [] k = "search_term" -> term
                   [] OTHER -> category]
  IN JObj([k \in {f \in ReferenceFields : full[f] # Undefined} |-> full[k]])

ContentData ==
  {DataOf(references, items, related, Undefined, Undefined) :
     references \in {Undefined, JStr("x"), JArr(<<>>), JArr(<<JNum(5), JText(<<"6">>)>>)},
     items \in {Undefined, Resolved(2), Resolved(4), Resolved(11),
                JArr(<<JNum(5), Titled(1)>>), JArr(<<JNull, Titled(1)>>), JArr(<<JNull>>)},
     related \in {Undefined, Resolved(2)}} \cup
  {DataOf(Undefined, Undefined, Undefined, term, category) :
     term \in {Undefined, JText(<<>>), JText(<<"s">>)},
     category \in {Undefined, JText(<<"c">>)}}

\* news_list, articles_list, posts_list, content_list, and the field name
\* post_news of a reference list
ContentTypes ==
  {<<"n", "e", "w", "s", "_", "l", "i", "s", "t">>,
   <<"a", "r", "t", "i", "c", "l", "e", "s", "_", "l", "i", "s", "t">>,
   <<"p", "o", "s", "t", "s", "_", "l", "i", "s", "t">>,
   <<"c", "o", "n", "t", "e", "n", "t", "_", "l", "i", "s", "t">>,
   <<"p", "o", "s", "t", "_", "n", "e", "w", "s">>}

ContentReferenceProps ==
  [data : ContentData, contentType : ContentTypes, impl : {"search.ts", "part_001"},
   env : {"production"}]

RenderContentReference(component, props) == Invoke(Main, component, props)

IsSearchCall(call) == call.url.path = <<"search", "sites", siteId>>
IsPagesCall(call) == call.url.path = <<"public", siteId, "pages">>

\* The payload of a search answered with `results`
SearchAnswer(results) ==
  Obj5("results", results, "total", JNum(Len(results.items)), "page", JNum(1),
       "size", JNum(3), "total_pages", JNum(1))

\* What the backend can answer to a request of a content block: failures, no
\* rows, one row, a null row, and more rows than were asked for
ContentOutcomes(task) ==
  IF task.pc # "fetching" THEN {}
  ELSE IF IsSearchCall(task.call)
    THEN {Fails, Http(500, NotJson), Http(200, Obj2("success", JBool(FALSE), "data", JNull))} \cup
         {Http(200, SearchAnswer(results)) :
            results \in {Rows(0), Rows(1), Rows(4), JArr(<<JNull>>)}}
  ELSE {Fails, Http(404, ErrorBody), Http(200, Obj2("success", JBool(TRUE), "data", JNull)),
        Http(200, Obj2("success", JBool(FALSE), "data", JNull))} \cup
       {Http(200, rows) : rows \in {Rows(0), Rows(1), Rows(4), JArr(<<JNull>>)}}

ContentNext ==
  \/ /\ tasks[Main].pc = "idle"
     /\ \E component \in ContentReferenceComponents, props \in ContentReferenceProps :
          RenderContentReference(component, props)
  \/ \E outcome \in ContentOutcomes(tasks[Main]) : FetchSettles(Main, outcome)

SpecContent == Init /\ [][ContentNext]_vars

\* A view that resolves the references of a content block
IsContentReference(task) == task.entry \in ContentReferenceComponents

\* The array holds an object with a title
HoldsResolved(items) ==
  \E i \in 1..Len(items) : items[i].t = "object" /\ Truthy(Prop(items[i], "title"))

\* The first `limit` entries of an array, ten when no limit is given
Truncated(items, limit) ==
  SubSeq(items, 1, Min(Len(items), IF limit = Undefined THEN 10 ELSE limit.n))

\* The search API answered with at least one item the service can return
SearchGaveItems(answer) ==
  /\ answer.kind = "returned"
  /\ Truthy(Prop(answer.value, "success"))
  /\ Truthy(Prop(answer.value, "data"))
  /\ CanTransformResults(Prop(Prop(answer.value, "data"), "results"))
  /\ Len(Prop(Prop(answer.value, "data"), "results").items) > 0

\* The pages API answered with at least one page
PagesGaveItems(answer) ==
  /\ answer.kind = "returned"
  /\ Truthy(Prop(answer.value, "success"))
  /\ CanRead(Prop(answer.value, "data"))
  /\ NonEmptyLength(Prop(Prop(answer.value, "data"), "items"))

\* The query by priority: the content type, then the search term, then the category
PriorityQuery(props) ==
  CASE Includes(props.contentType, Text_news) -> Text_news
    [] ~Includes(props.contentType, Text_news) /\ Includes(props.contentType, Text_article) ->
         Text_article
    [] /\ ~Includes(props.contentType, Text_news)
       /\ ~Includes(props.contentType, Text_article)
       /\ Includes(props.contentType, Text_post) -> Text_post
    [] OTHER -> IF Truthy(Prop(props.data, "search_term")) THEN Prop(props.data, "search_term").s
                ELSE IF Truthy(Prop(props.data, "category")) THEN Prop(props.data, "category").s
                ELSE Text_content

\* The order of the strategies, for a task whose selected array is `selected`
StrategyOrder(task, selected) ==
  LET limit == limitOf(task.entry)
  IN /\ HoldsResolved(selected) =>
          /\ task.pc = "done" /\ Len(task.fetches) = 0
          /\ task.result.value.resolved = Returned(JArr(Truncated(selected, limit)))
     /\ ~HoldsResolved(selected) =>
          /\ Len(task.fetches) >= 1
          /\ IsSearchCall(task.fetches[1])
          /\ ParamOf(task.fetches[1], "q") = JText(PriorityQuery(task.input))
     /\ \A j \in 1..Len(task.fetches) :
          IsPagesCall(task.fetches[j]) =>
            /\ j > 1 /\ IsSearchCall(task.fetches[1])
            /\ ~SearchGaveItems(AnswerOf(task, 1))
     /\ task.pc = "done" /\ task.result.value.resolved = Returned(JArr(<<>>)) =>
          /\ Len(task.fetches) >= 2
          /\ IsSearchCall(task.fetches[1]) /\ ~SearchGaveItems(AnswerOf(task, 1))
          /\ IsPagesCall(task.fetches[Len(task.fetches)])
          /\ ~PagesGaveItems(AnswerOf(task, Len(task.fetches)))

\* C21: resolveContentReferences tries its strategies in a fixed order: when the
\* selected reference array holds pre-resolved objects, its first `limit` entries
\* (ten by default) are returned without any backend call; otherwise the search
\* API is queried first, with the query 'news', 'article' or 'post' when the
\* content type contains it (in this priority), else data.search_term, else
\* data.category, else 'content'; the pages API is queried only after the search
\* API failed or gave no items; the empty list is returned only when both gave
\* nothing.
C21_StrategyOrder ==
  \A t \in TaskIds :
    IsContentReference(tasks[t]) =>
      StrategyOrder(tasks[t], findReferenceData(tasks[t].input.data, 1))

\* The recognised fields of `data` that hold an array with a resolved object
ResolvedFields(data) ==
  {i \in 1..Len(referencePatterns) :
     /\ Prop(data, referencePatterns[i]).t = "array"
     /\ HoldsResolved(Prop(data, referencePatterns[i]).items)}

\* C22: if the data of a content block holds already-resolved objects (objects
\* with a title) under any of the recognised reference field names,
\* resolveContentReferences returns the objects of such a field and makes no
\* backend call, whatever the other recognised fields contain.
C22_ResolvedObjectsReturned ==
  \A t \in TaskIds :
    IsContentReference(tasks[t]) /\ ResolvedFields(tasks[t].input.data) # {} =>
      /\ tasks[t].pc = "done"
      /\ Len(tasks[t].fetches) = 0
      /\ \E i \in ResolvedFields(tasks[t].input.data) :
           tasks[t].result.value.resolved =
             Returned(JArr(Truncated(Prop(tasks[t].input.data, referencePatterns[i]).items,
                                     limitOf(tasks[t].entry))))

\* C23: the teaser view is limited to 3 items: whatever the data of the content
\* block and whatever the backend answers, ContentReferenceTeaser displays at
\* most 3 items.
C23_TeaserAtMostThree ==
  \A t \in TaskIds :
    Done(t, "ContentReferenceTeaser") => Len(tasks[t].result.value.items) <= 3

----------------------------------------------------------------------------
(* The content of a page: PageContent renders pages with up to three page  *)
(* elements and a legacy content list.                                     *)

MaxElements == 3

Sections == {Undefined, JStr("main"), JStr("sidebar"), JStr("footer")}

Positions == {1, 2}

\* The page element with id `id`
PageElement(id, position, section) ==
  JObj([k \in {"id", "position", "section", "content_element"} |->
    CASE k = "id" -> JNum(id)
      [] k = "position" -> JNum(position)
      [] k = "section" -> section
      [] OTHER -> Obj2("type_identifier", JStr("text"), "data", JObj([f \in {} |-> Undefined]))])

\* The lists of n page elements, with ids 1..n in the order of the list
ElementLists(n) ==
  {[i \in 1..n |-> PageElement(i, choice[i][1], choice[i][2])] :
     choice \in [1..n -> Positions \X Sections]}

PageElementLists ==
  {Undefined} \cup {JArr(list) : list \in UNION {ElementLists(n) : n \in 0..MaxElements}}

LegacyContent ==
  {Undefined, JArr(<<>>), JArr(<<Obj2("type", JStr("paragraph"), "text", JStr("p"))>>)}

\* A page with these page_elements and this legacy content
PageWith(pageElements, content) ==
  LET full == [k \in {"id", "title", "page_elements", "content"} |->
                 CASE k = "id" -> JNum(7)
                   [] k = "title" -> JStr("t")
                   [] k = "page_elements" -> pageElements
                   [] OTHER -> content]
  IN JObj([k \in {f \in DOMAIN full : full[f] # Undefined} |-> full[k]])

RenderPageContent(page, impl) == Invoke(Main, "PageContent", [page |-> page, impl |-> impl])

\* A page is rendered once the slot is free
RenderNext ==
  /\ tasks[Main].pc = "idle"
  /\ \E pageElements \in PageElementLists, content \in LegacyContent,
        impl \in {"part_006", "part_008"} :
       RenderPageContent(PageWith(pageElements, content), impl)

SpecRender == Init /\ [][RenderNext]_vars

\* The positions of a list of rendered elements ascend
Ascending(rendered) ==
  \A i \in 1..Len(rendered) : \A j \in i..Len(rendered) :
    Prop(rendered[i].element, "position").n <= Prop(rendered[j].element, "position").n

\* The rendered elements of one section share that section
OneSection(rendered) ==
  \A i \in 1..Len(rendered) : \A j \in 1..Len(rendered) :
    inSidebar(rendered[i].element) = inSidebar(rendered[j].element)

\* How often the element is rendered in a view
TimesRendered(view, element) ==
  Cardinality({i \in 1..Len(view.main) : view.main[i].element = element}) +
  Cardinality({i \in 1..Len(view.sidebar) : view.sidebar[i].element = element})

\* C24: when a page has a non-empty page_elements list, RichContentRenderer
\* renders every element of that list exactly once through PageElementRenderer,
\* in ascending position order within its section, and does not render the
\* legacy content list; the legacy content list is rendered only when
\* page_elements is absent or empty.
C24_PageElementsFirst ==
  \A t \in TaskIds :
    Done(t, "PageContent") =>
      LET page == tasks[t].input.page
          pageElements == Prop(page, "page_elements")
          view == tasks[t].result.value
      IN /\ FilledArray(pageElements) =>
              /\ \A i \in 1..Len(pageElements.items) :
                   TimesRendered(view, pageElements.items[i]) = 1
              /\ \A i \in 1..Len(view.main) : view.main[i].renderer = "PageElementRenderer"
              /\ \A i \in 1..Len(view.sidebar) : view.sidebar[i].renderer = "PageElementRenderer"
              /\ Ascending(view.main) /\ Ascending(view.sidebar)
              /\ tasks[t].input.impl = "part_008" => OneSection(view.main) /\ OneSection(view.sidebar)
              /\ view.blocks = <<>>
         /\ view.blocks # <<>> => ~FilledArray(pageElements)

====
